---------------------------- MODULE Spec2Model ----------------------------
(***************************************************************************)
(* A model of the geometric core of 3dglobe-viz: the incremental          *)
(* Bowyer-Watson triangulator (class Delaunay2D), the polygon helpers     *)
(* (polygonWinding, offsetPolygon, pointInPolygon) and the point sampler  *)
(* (samplePointsInPolygon).                                               *)
(*                                                                         *)
(* Numbers.  The program computes in IEEE-754 doubles.  The model         *)
(* computes the same expressions over exact rationals: coordinates are    *)
(* integers, a quotient is kept as numerator and denominator, and values  *)
(* that exceed the 32-bit integers of TLC are kept as                      *)
(* arbitrary-precision integers (the Big* operators).  Where the          *)
(* rounding of the doubles decides a comparison, namely when a point lies *)
(* exactly on a circumcircle, both outcomes are possible steps.           *)
(***************************************************************************)
EXTENDS Integers, Sequences, FiniteSets, TLC

-----------------------------------------------------------------------------
(* Arbitrary-precision integers: [s |-> sign, m |-> magnitude], the        *)
(* magnitude a little-endian sequence of limbs in 0..Base-1 without        *)
(* leading zero limbs.  They stand for the exact value of a JavaScript     *)
(* number expression.                                                      *)

Base == 100 * 100

RECURSIVE NatLimbs(_)
NatLimbs(n) == IF n = 0 THEN <<>> ELSE <<n % Base>> \o NatLimbs(n \div Base)

BigOf(n) ==
  IF n = 0 THEN [s |-> 0, m |-> <<>>]
  ELSE IF n > 0 THEN [s |-> 1, m |-> NatLimbs(n)]
  ELSE [s |-> -1, m |-> NatLimbs(-n)]

Limb(m, i) == IF i <= Len(m) THEN m[i] ELSE 0

RECURSIVE MagTrim(_)
MagTrim(m) ==
  IF m = <<>> THEN m
  ELSE IF m[Len(m)] = 0 THEN MagTrim(SubSeq(m, 1, Len(m) - 1)) ELSE m

\* -1, 0, 1 as magnitude a is below, equal to, above magnitude b
RECURSIVE MagCmpAt(_, _, _)
MagCmpAt(a, b, i) ==
  IF i = 0 THEN 0
  ELSE IF a[i] < b[i] THEN -1
  ELSE IF a[i] > b[i] THEN 1
  ELSE MagCmpAt(a, b, i - 1)

MagCmp(a, b) ==
  IF Len(a) < Len(b) THEN -1
  ELSE IF Len(a) > Len(b) THEN 1
  ELSE MagCmpAt(a, b, Len(a))

RECURSIVE MagAddFrom(_, _, _, _)
MagAddFrom(a, b, i, c) ==
  IF i > Len(a) /\ i > Len(b)
  THEN IF c = 0 THEN <<>> ELSE <<c>>
  ELSE LET v == Limb(a, i) + Limb(b, i) + c
       IN  <<v % Base>> \o MagAddFrom(a, b, i + 1, v \div Base)

\* a - b for magnitudes with a >= b
RECURSIVE MagSubFrom(_, _, _, _)
MagSubFrom(a, b, i, c) ==
  IF i > Len(a) THEN <<>>
  ELSE LET v == a[i] - Limb(b, i) + c
       IN  <<v % Base>> \o MagSubFrom(a, b, i + 1, v \div Base)

RECURSIVE ConvSum(_, _, _, _)
ConvSum(a, b, k, j) ==
  IF j > Len(a) \/ j > k THEN 0
  ELSE (IF k + 1 - j <= Len(b) THEN a[j] * b[k + 1 - j] ELSE 0)
       + ConvSum(a, b, k, j + 1)

RECURSIVE MagMulFrom(_, _, _, _)
MagMulFrom(a, b, k, c) ==
  IF k > Len(a) + Len(b) THEN <<>>
  ELSE LET v == ConvSum(a, b, k, 1) + c
       IN  <<v % Base>> \o MagMulFrom(a, b, k + 1, v \div Base)

BigNeg(a) == [s |-> -a.s, m |-> a.m]

BigAdd(a, b) ==
  IF a.s = 0 THEN b
  ELSE IF b.s = 0 THEN a
  ELSE IF a.s = b.s THEN [s |-> a.s, m |-> MagAddFrom(a.m, b.m, 1, 0)]
  ELSE LET c == MagCmp(a.m, b.m)
       IN  IF c = 0 THEN [s |-> 0, m |-> <<>>]
           ELSE IF c > 0 THEN [s |-> a.s, m |-> MagTrim(MagSubFrom(a.m, b.m, 1, 0))]
           ELSE [s |-> b.s, m |-> MagTrim(MagSubFrom(b.m, a.m, 1, 0))]

BigSub(a, b) == BigAdd(a, BigNeg(b))

BigMul(a, b) ==
  IF a.s = 0 \/ b.s = 0 THEN [s |-> 0, m |-> <<>>]
  ELSE [s |-> a.s * b.s, m |-> MagTrim(MagMulFrom(a.m, b.m, 1, 0))]

BigSq(a) == BigMul(a, a)

BigSign(a) == a.s

BigLeq(a, b) == BigSign(BigSub(a, b)) <= 0

BigLess(a, b) == BigSign(BigSub(a, b)) < 0


-----------------------------------------------------------------------------
(* State.  The first four variables are the fields of one Delaunay2D       *)
(* instance and the progress of its caller triangulate2D.                  *)

VARIABLES
  points,      \* Delaunay2D.points: the inputs, then the three super-triangle corners
  triangles,   \* Delaunay2D.triangles: sequence of [a, b, c, circum], 0-based indices
  inserted,    \* the indices insertPoint has been called with
  finalized,   \* finalize() has run
  polygon,     \* the ring passed to the polygon functions
  pc,          \* which polygon function was called and how far it got
  winding,     \* the value polygonWinding returned (0: not called)
  offsetOut,   \* the array offsetPolygon returned
  offsetDist,  \* the offsetDistance it was called with
  num,         \* samplePointsInPolygon's target count
  pts,         \* samplePointsInPolygon's local pts
  box,         \* its sampling box minLat, minLon, maxLat, maxLon
  unitsPerDegree, \* how many coordinate units of the ring make one degree
  args,        \* the points a geometric predicate was called with
  inside,      \* what pointInPolygon returned for each of them inside a classifier
  result,      \* the boolean it returned
  geojson,     \* the rings of each feature of countries.geo.json
  countries,   \* countries.ts: the exported array of CountryData
  cursor,      \* the country and ring generateCountryData is at, <<>> when not running
  calls,       \* where each call of regenerate() stands
  jobs,        \* the promise jobs waiting to run, first in first out
  ptsGroup,    \* main.ts: the children of the three scene groups
  triGroup,
  surfaceGroup,
  allocated    \* how many scene objects have been constructed

dvars == <<points, triangles, inserted, finalized>>

pvars == <<polygon, pc, winding, offsetOut, offsetDist, num, pts, box>>

qvars == <<unitsPerDegree, args, inside, result>>

rvars == <<geojson, countries, cursor, calls, jobs, ptsGroup, triGroup, surfaceGroup, allocated>>

vars == <<points, triangles, inserted, finalized,
          polygon, pc, winding, offsetOut, offsetDist, num, pts, box,
          unitsPerDegree, args, inside, result,
          geojson, countries, cursor, calls, jobs, ptsGroup, triGroup, surfaceGroup, allocated>>

Abs(n) == IF n < 0 THEN -n ELSE n

Min2(a, b) == IF a < b THEN a ELSE b

Max2(a, b) == IF a > b THEN a ELSE b

SetMin(S) == CHOOSE m \in S : \A n \in S : m <= n

SetMax(S) == CHOOSE m \in S : \A n \in S : m >= n

\* this.points[i], i counted from 0 as in the source
Pt(ps, i) == ps[i + 1]

\* the number of input points: the array holds three super-triangle corners more
NumInputs == Len(points) - 3

-----------------------------------------------------------------------------
(* Delaunay2D.computeCircum.  The circle is kept as the exact quotients    *)
(* x = nx / d, y = ny / d, r2 = nr2 / (d * d); inf marks the placeholder   *)
(* { x: Infinity, y: Infinity, r2: Infinity }.                             *)

\* 1 / 1e-12, the reciprocal of the tolerance literal
EpsInv == BigMul(BigOf(10 ^ 6), BigOf(10 ^ 6))

NormSq(p) == p.x * p.x + p.y * p.y

InfCircum == [inf |-> TRUE, nx |-> BigOf(0), ny |-> BigOf(0), d |-> 0, nr2 |-> BigOf(0)]

computeCircum(ps, aIdx, bIdx, cIdx) ==
  LET A == Pt(ps, aIdx)
      B == Pt(ps, bIdx)
      C == Pt(ps, cIdx)
      d == 2 * (A.x * (B.y - C.y) + B.x * (C.y - A.y) + C.x * (A.y - B.y))
  IN  IF BigLess(BigMul(BigOf(Abs(d)), EpsInv), BigOf(1))   \* Math.abs(d) < 1e-12
      THEN InfCircum
      ELSE LET nx == BigAdd(BigAdd(BigMul(BigOf(NormSq(A)), BigOf(B.y - C.y)),
                                   BigMul(BigOf(NormSq(B)), BigOf(C.y - A.y))),
                            BigMul(BigOf(NormSq(C)), BigOf(A.y - B.y)))
               ny == BigAdd(BigAdd(BigMul(BigOf(NormSq(A)), BigOf(C.x - B.x)),
                                   BigMul(BigOf(NormSq(B)), BigOf(A.x - C.x))),
                            BigMul(BigOf(NormSq(C)), BigOf(B.x - A.x)))
               \* r2 = (ux - A.x)^2 + (uy - A.y)^2, over the denominator d * d
               nr2 == BigAdd(BigSq(BigSub(nx, BigMul(BigOf(d), BigOf(A.x)))),
                             BigSq(BigSub(ny, BigMul(BigOf(d), BigOf(A.y)))))
           IN  [inf |-> FALSE, nx |-> nx, ny |-> ny, d |-> d, nr2 |-> nr2]

\* d2 - c.r2 of insertPoint as a numerator over c.d * c.d, for a finite circle c
DistDiff(c, P) ==
  BigSub(BigAdd(BigSq(BigSub(c.nx, BigMul(BigOf(c.d), BigOf(P.x)))),
                BigSq(BigSub(c.ny, BigMul(BigOf(c.d), BigOf(P.y))))),
         c.nr2)

(* The test d2 <= c.r2 + 1e-12 of insertPoint: "in" when it holds, "out"   *)
(* when it fails, "on" when the point lies exactly on the circle, where    *)
(* d2 and c.r2 are equal as reals and their roundings decide.  For the     *)
(* placeholder circle d2 and c.r2 are both Infinity and                    *)
(* Infinity <= Infinity holds.                                             *)
CircleTest(c, P) ==
  IF c.inf THEN "in"
  ELSE LET n == DistDiff(c, P)
       IN  IF BigSign(n) < 0 THEN "in"
           ELSE IF BigSign(n) = 0 THEN "on"
           ELSE IF BigLeq(BigMul(n, EpsInv), BigSq(BigOf(c.d))) THEN "in"
           ELSE "out"

-----------------------------------------------------------------------------
(* Delaunay2D constructor and initSuperTriangle.                           *)

Tri(ps, a, b, c) == [a |-> a, b |-> b, c |-> c, circum |-> computeCircum(ps, a, b, c)]

SuperScale == 20

\* the super-triangle built around a center far to the right of the inputs
initSuperTriangle_Shifted(input) ==
  LET xs   == {input[i].x : i \in 1..Len(input)}
      ys   == {input[i].y : i \in 1..Len(input)}
      minX == SetMin(xs)
      maxX == SetMax(xs)
      minY == SetMin(ys)
      maxY == SetMax(ys)
      dx   == maxX - minX
      dy   == maxY - minY
      d    == Max2(dx, dy)
      cx   == (minX + maxX) \div 2 + 100 * d
      cy   == (minY + maxY) \div 2
      p1   == [x |-> cx - SuperScale * d, y |-> cy - d]
      p2   == [x |-> cx, y |-> cy + SuperScale * d]
      p3   == [x |-> cx + SuperScale * d, y |-> cy - d]
      ps  == input \o <<p1, p2, p3>>
      i1   == Len(input)
  IN  [points |-> ps, triangles |-> <<Tri(ps, i1, i1 + 1, i1 + 2)>>]

initSuperTriangle(input) ==
  LET xs   == {input[i].x : i \in 1..Len(input)}
      ys   == {input[i].y : i \in 1..Len(input)}
      minX == SetMin(xs)
      maxX == SetMax(xs)
      minY == SetMin(ys)
      maxY == SetMax(ys)
      dx   == maxX - minX
      dy   == maxY - minY
      d    == Max2(dx, dy)
      cx   == (minX + maxX) \div 2
      cy   == (minY + maxY) \div 2
      p1   == [x |-> cx - SuperScale * d, y |-> cy - d]
      p2   == [x |-> cx, y |-> cy + SuperScale * d]
      p3   == [x |-> cx + SuperScale * d, y |-> cy - d]
      ps  == input \o <<p1, p2, p3>>
      i1   == Len(input)
  IN  [points |-> ps, triangles |-> <<Tri(ps, i1, i1 + 1, i1 + 2)>>]

-----------------------------------------------------------------------------
(* Delaunay2D.insertPoint.                                                 *)

\* key(a, b): the unordered pair, smaller index first
key(a, b) == IF a < b THEN <<a, b>> ELSE <<b, a>>

TriEdges(t) == <<key(t.a, t.b), key(t.b, t.c), key(t.c, t.a)>>

\* the edges of the bad triangles, in the order the loop visits them
RECURSIVE EdgeList(_, _)
EdgeList(tris, badIdx) ==
  IF badIdx = <<>> THEN <<>>
  ELSE TriEdges(tris[Head(badIdx)]) \o EdgeList(tris, Tail(badIdx))

\* edgeMap.get(k): how often edge k occurs
EdgeCount(edges, k) == Cardinality({i \in 1..Len(edges) : edges[i] = k})

\* the cavity boundary made of the edges that two bad triangles share
BoundaryPolygon_Shared(edges) ==
  LET twice(k) == EdgeCount(edges, k) = 2
  IN  SelectSeq(edges, twice)

\* the entries of edgeMap with count 1, in the map's insertion order
BoundaryPolygon(edges) ==
  LET once(k) == EdgeCount(edges, k) = 1
  IN  SelectSeq(edges, once)

RECURSIVE SeqOfSet(_)
SeqOfSet(S) ==
  IF S = {} THEN <<>>
  ELSE LET m == SetMin(S) IN <<m>> \o SeqOfSet(S \ {m})

\* the new triangles with the last edge of the cavity boundary left out
NewTriangles_SkipLast(ps, cavity, idx) ==
  [i \in 1..(Len(cavity) - 1) |-> Tri(ps, cavity[i][1], cavity[i][2], idx)]

NewTriangles(ps, cavity, idx) ==
  [i \in 1..Len(cavity) |-> Tri(ps, cavity[i][1], cavity[i][2], idx)]

\* (ps is this.points; cavity is insertPoint's local named polygon)
\* the triangle array after insertPoint(idx) when the triangles at the positions in bad
\* are the ones found bad
insertResult(ps, tris, idx, bad) ==
  LET badIdx  == SeqOfSet(bad)
      cavity == BoundaryPolygon(EdgeList(tris, badIdx))
      keepIdx == SeqOfSet((1..Len(tris)) \ bad)
      kept    == [i \in 1..Len(keepIdx) |-> tris[keepIdx[i]]]
  IN  kept \o NewTriangles(ps, cavity, idx)

\* positions of the triangles whose circle test against point idx gives verdict
TestedAs(ps, tris, idx, verdict) ==
  {k \in 1..Len(tris) : CircleTest(tris[k].circum, Pt(ps, idx)) = verdict}

insertPoint(idx) ==
  /\ ~finalized
  /\ idx \in 0..(NumInputs - 1)
  /\ idx \notin inserted
  /\ \E tie \in SUBSET TestedAs(points, triangles, idx, "on") :
       triangles' = insertResult(points, triangles, idx,
                                 TestedAs(points, triangles, idx, "in") \cup tie)
  /\ inserted' = inserted \cup {idx}
  /\ UNCHANGED <<points, finalized>>
  /\ UNCHANGED pvars
  /\ UNCHANGED rvars
  /\ UNCHANGED qvars

-----------------------------------------------------------------------------
(* Delaunay2D.finalize.                                                    *)

\* finalize with the super-triangle taken to start one index late
finalizeResult_Late(ps, tris) ==
  LET superIdx == Len(ps) - 2
      superSet == {superIdx, superIdx + 1, superIdx + 2}
      keep(t)  == t.a \notin superSet /\ t.b \notin superSet /\ t.c \notin superSet
  IN  SelectSeq(tris, keep)

finalizeResult(ps, tris) ==
  LET superIdx == Len(ps) - 3
      superSet == {superIdx, superIdx + 1, superIdx + 2}
      keep(t)  == t.a \notin superSet /\ t.b \notin superSet /\ t.c \notin superSet
  IN  SelectSeq(tris, keep)

\* triangulate2D calls finalize() once every index has been inserted
finalize ==
  /\ ~finalized
  /\ inserted = 0..(NumInputs - 1)
  /\ triangles' = finalizeResult(points, triangles)
  /\ finalized' = TRUE
  /\ UNCHANGED <<points, inserted>>
  /\ UNCHANGED pvars
  /\ UNCHANGED rvars
  /\ UNCHANGED qvars

-----------------------------------------------------------------------------
\* nothing loaded, no regenerate() called, the scene groups empty
RIdle ==
  /\ geojson = <<>>
  /\ countries = <<>>
  /\ cursor = <<>>
  /\ calls = <<>>
  /\ jobs = <<>>
  /\ ptsGroup = <<>>
  /\ triGroup = <<>>
  /\ surfaceGroup = <<>>
  /\ allocated = 0

\* no geometric predicate called; coordinates in the sampler's units (Scale per degree)
QIdle ==
  /\ unitsPerDegree = BigOf(4 * 10)
  /\ args = <<>>
  /\ inside = <<>>
  /\ result = FALSE
  /\ RIdle

\* the polygon side at rest: no ring, nothing called
PIdle ==
  /\ polygon = <<>>
  /\ pc = "idle"
  /\ winding = 0
  /\ offsetOut = <<>>
  /\ offsetDist = 0
  /\ num = 0
  /\ pts = <<>>
  /\ box = [inf |-> TRUE, minLat |-> 0, minLon |-> 0, maxLat |-> 0, maxLon |-> 0]
  /\ QIdle

-----------------------------------------------------------------------------
(* Inputs of the triangulator.                                             *)

MaxN == 4

Xs == {0, 2, 42}

Ys == {0, 2}

Grid == {[x |-> a, y |-> b] : a \in Xs, b \in Ys}

PtLess(p, q) == p.x < q.x \/ (p.x = q.x /\ p.y < q.y)

\* every set of 1..MaxN grid points, as the array listing it in increasing order;
\* insertPoint is called in every order
DistinctInputs ==
  {s \in UNION {[1..n -> Grid] : n \in 1..MaxN} :
     \A i \in 1..(Len(s) - 1) : PtLess(s[i], s[i + 1])}

XY(a, b) == [x |-> a, y |-> b]

\* arrays that hold the same point twice, as a closed ring lists its first vertex again
CoincidentInputs ==
  { <<XY(0, 0), XY(0, 0)>>,
    <<XY(0, 0), XY(2, 0), XY(0, 0)>>,
    <<XY(0, 0), XY(0, 2), XY(2, 0), XY(42, 2), XY(42, 2)>> }

\* the four corners of a square in boundary order, then its center
SquareCenterInputs ==
  { <<XY(0, 0), XY(0, 4), XY(4, 4), XY(4, 0), XY(2, 2)>>,
    <<XY(0, 0), XY(2, 0), XY(2, 2), XY(0, 2), XY(1, 1)>> }

DInit ==
  /\ \E input \in DistinctInputs \cup CoincidentInputs \cup SquareCenterInputs :
       LET st == initSuperTriangle(input)
       IN  /\ points = st.points
           /\ triangles = st.triangles
  /\ inserted = {}
  /\ finalized = FALSE
  /\ PIdle

DNext ==
  \/ \E idx \in 0..(MaxN + 1) : insertPoint(idx)
  \/ finalize

SpecDelaunay == DInit /\ [][DNext]_vars

-----------------------------------------------------------------------------
(* Geometry used to state the claims about the triangulation.              *)

InputIdx == 0..(NumInputs - 1)

TriIdx(t) == {t.a, t.b, t.c}

\* twice the signed area of the triangle p, q, r: positive when r is left of p -> q
Cross(p, q, r) == (q.x - p.x) * (r.y - p.y) - (q.y - p.y) * (r.x - p.x)

TriArea2(t) == Abs(Cross(Pt(points, t.a), Pt(points, t.b), Pt(points, t.c)))

RECURSIVE SumArea2(_, _)
SumArea2(tris, k) == IF k = 0 THEN 0 ELSE TriArea2(tris[k]) + SumArea2(tris, k - 1)

InputPts == {Pt(points, i) : i \in InputIdx}

Between(p, q, r) ==
  /\ Min2(p.x, q.x) <= r.x /\ r.x <= Max2(p.x, q.x)
  /\ Min2(p.y, q.y) <= r.y /\ r.y <= Max2(p.y, q.y)

\* p -> q is a counter-clockwise edge of the convex hull of the input points
HullEdge(p, q) ==
  /\ p # q
  /\ \A r \in InputPts : Cross(p, q, r) >= 0
  /\ \A r \in InputPts : Cross(p, q, r) = 0 => Between(p, q, r)

RECURSIVE SumShoelace(_)
SumShoelace(E) ==
  IF E = {} THEN 0
  ELSE LET e == CHOOSE e \in E : TRUE
       IN  (e[1].x * e[2].y - e[2].x * e[1].y) + SumShoelace(E \ {e})

\* twice the area of the convex hull of the input points
HullArea2 == SumShoelace({e \in InputPts \X InputPts : HullEdge(e[1], e[2])})

\* the line through p and q has the triangle p, q, o on one closed side and u, v, w on the other
Separates(p, q, o, u, v, w) ==
  LET s == Cross(p, q, o)
  IN  \/ (s > 0 /\ Cross(p, q, u) <= 0 /\ Cross(p, q, v) <= 0 /\ Cross(p, q, w) <= 0)
      \/ (s < 0 /\ Cross(p, q, u) >= 0 /\ Cross(p, q, v) >= 0 /\ Cross(p, q, w) >= 0)

SepByEdgeOf(t, u) ==
  LET A == Pt(points, t.a)  B == Pt(points, t.b)  C == Pt(points, t.c)
      U == Pt(points, u.a)  V == Pt(points, u.b)  W == Pt(points, u.c)
  IN  \/ Separates(A, B, C, U, V, W)
      \/ Separates(B, C, A, U, V, W)
      \/ Separates(C, A, B, U, V, W)

\* two triangles share no interior point (convex sets: some edge line separates them)
InteriorDisjoint(t, u) ==
  \/ TriArea2(t) = 0
  \/ TriArea2(u) = 0
  \/ SepByEdgeOf(t, u)
  \/ SepByEdgeOf(u, t)

\* point P lies strictly inside circle c: d2 < c.r2 (never so for the placeholder,
\* Infinity < Infinity being false)
StrictlyInside(c, P) == ~c.inf /\ BigSign(DistDiff(c, P)) < 0

-----------------------------------------------------------------------------
(* C1: after every input index has been inserted (in any order) and        *)
(* finalize() has run, every remaining triangle has its three indices     *)
(* among the input indices 0..N-1; none is a super-triangle index.         *)
C1_NoSuperIndex ==
  finalized => \A k \in 1..Len(triangles) : TriIdx(triangles[k]) \subseteq InputIdx

\* a finalized triangulation that kept triangles
C1_Witness == finalized /\ inserted = InputIdx /\ Len(triangles) >= 2

(* C2: Delaunay property.  After all inputs are inserted and finalize()    *)
(* has run, no input point that is not a vertex of a remaining triangle    *)
(* lies strictly inside that triangle's circumcircle.                      *)
C2_Delaunay ==
  finalized =>
    \A k \in 1..Len(triangles) : \A j \in InputIdx \ TriIdx(triangles[k]) :
      ~StrictlyInside(triangles[k].circum, Pt(points, j))

(* C3: after finalize() the remaining triangles tile the convex hull of    *)
(* the inputs: they are pairwise interior-disjoint and their areas sum to  *)
(* the area of the hull.                                                   *)
C3_TilesHull ==
  finalized =>
    /\ \A k, l \in 1..Len(triangles) :
         k < l => InteriorDisjoint(triangles[k], triangles[l])
    /\ SumArea2(triangles, Len(triangles)) = HullArea2

(* C4: a triangle whose circumcircle is the placeholder is never found bad *)
(* by insertPoint: an insertPoint step keeps every such triangle.          *)
C4_PlaceholderKept ==
  [][inserted' # inserted =>
       \A k \in 1..Len(triangles) :
         triangles[k].circum.inf =>
           \E l \in 1..Len(triangles') : triangles'[l] = triangles[k]]_vars


-----------------------------------------------------------------------------
(* Polygon helpers (offset.ts, countries.ts).  Longitudes and latitudes are
   integers in units of 1/Scale degree; the rings offered below are chosen so
   that every edge offsetPolygon offsets has an integer length and an integer
   offset vector, so no square root or division loses anything. *)

Scale == 4 * 10

\* 0.1 degree, the threshold in offsetPolygon's "skip degenerate edges" test
MinEdge == Scale \div 10

\* offsetPolygon's default offsetDistance (1) and the sampler's (0.5), in units
DefaultOffset == Scale

SamplerOffset == Scale \div 2

\* a LatLon with none of its optional tags set
LatLon(lon, lat) ==
  [lon |-> lon, lat |-> lat, boundary |-> FALSE, boundaryIndex |-> -1, offset |-> FALSE]

\* Math.sqrt(vx*vx + vy*vy) for a vector of integer length
magnitudeOf(vx, vy) ==
  CHOOSE r \in Max2(Abs(vx), Abs(vy))..(Abs(vx) + Abs(vy)) : r * r = vx * vx + vy * vy

\* the sum of (p2.x - p1.x) * (p2.y + p1.y) over the edges leaving positions lo..hi
RECURSIVE windingSum(_, _, _)
windingSum(cartesian, lo, hi) ==
  IF lo > hi THEN 0
  ELSE IF lo = hi
  THEN LET p1 == cartesian[lo]
           p2 == cartesian[(lo % Len(cartesian)) + 1]
       IN  (p2.x - p1.x) * (p2.y + p1.y)
  ELSE LET mid == (lo + hi) \div 2
       IN  windingSum(cartesian, lo, mid) + windingSum(cartesian, mid + 1, hi)

polygonWinding(cartesian) ==
  IF windingSum(cartesian, 1, Len(cartesian)) > 0 THEN 1 ELSE -1

\* the frame offsetPolygon hands to polygonWinding
lonLatFrame(ring) ==
  [i \in 1..Len(ring) |-> [x |-> ring[i].lon, y |-> ring[i].lat, z |-> 0]]

\* offsetPolygon's loop test on the edge leaving the vertex at position i
edgeSkipped(ring, i) ==
  Abs(ring[i + 1].lon - ring[i].lon) < MinEdge \/ Abs(ring[i + 1].lat - ring[i].lat) < MinEdge

\* offsetPoint with the normal turned the other way: (-vy, vx) / magnitude
offsetPoint_Outward(ring, i, offsetDistance, w) ==
  LET p1 == ring[i]
      p2 == ring[i + 1]
      vx == p2.lon - p1.lon
      vy == p2.lat - p1.lat
      magnitude == magnitudeOf(vx, vy)
  IN  [LatLon(p1.lon + (offsetDistance * (0 - vy) * w) \div magnitude,
              p1.lat + (offsetDistance * vx * w) \div magnitude)
         EXCEPT !.offset = TRUE]

\* the point offsetPolygon pushes for the edge leaving the vertex at position i
offsetPoint(ring, i, offsetDistance, w) ==
  LET p1 == ring[i]
      p2 == ring[i + 1]
      vx == p2.lon - p1.lon
      vy == p2.lat - p1.lat
      magnitude == magnitudeOf(vx, vy)
  IN  [LatLon(p1.lon + (offsetDistance * vy * w) \div magnitude,
              p1.lat + (offsetDistance * (0 - vx) * w) \div magnitude)
         EXCEPT !.offset = TRUE]

\* offsetPolygon without the skip test: a point for every edge 0..n-2
offsetPolygon_NoSkip(ring, offsetDistance) ==
  LET w == polygonWinding(lonLatFrame(ring))
  IN  [k \in 1..(Len(ring) - 1) |-> offsetPoint(ring, k, offsetDistance, w)]

offsetPolygon(ring, offsetDistance) ==
  LET w == polygonWinding(lonLatFrame(ring))
      offsetEdge(i) == ~edgeSkipped(ring, i)
      edges == SelectSeq([i \in 1..(Len(ring) - 1) |-> i], offsetEdge)
  IN  [k \in 1..Len(edges) |-> offsetPoint(ring, edges[k], offsetDistance, w)]

\* the ray test of pointInPolygon on the edge from vertex j to vertex i:
\*   ((yi > lat) !== (yj > lat)) && lon < (xj - xi) * (lat - yi) / ((yj - yi) + epsilon) + xi
\* with epsilon = 1e-12 degree and coordinates in units of 1/perDegree degree; the
\* division is cleared by the sign of the denominator
intersectAt(perDegree, point, vi, vj) ==
  LET rhs == BigMul(BigOf((vj.lon - vi.lon) * (point.lat - vi.lat)), EpsInv)
      den == BigAdd(BigMul(BigOf(vj.lat - vi.lat), EpsInv), perDegree)
      lhs == BigMul(BigOf(point.lon - vi.lon), den)
  IN  /\ (vi.lat > point.lat) # (vj.lat > point.lat)
      /\ IF BigSign(den) > 0 THEN BigLess(lhs, rhs) ELSE BigLess(rhs, lhs)

pointInPolygonAt(perDegree, point, ring) ==
  IF Len(ring) < 3 THEN FALSE
  ELSE LET n == Len(ring)
           prev(i) == IF i = 1 THEN n ELSE i - 1
           hits == {i \in 1..n : intersectAt(perDegree, point, ring[i], ring[prev(i)])}
       IN  Cardinality(hits) % 2 = 1

\* part_001 / main.ts: the older pointInPolygon the triangle classifiers call,
\* without the guard and without epsilon; a straddled edge has yj # yi
intersectPlain(point, vi, vj) ==
  LET rhs == (vj.lon - vi.lon) * (point.lat - vi.lat)
      lhs == (point.lon - vi.lon) * (vj.lat - vi.lat)
  IN  /\ (vi.lat > point.lat) # (vj.lat > point.lat)
      /\ IF vj.lat - vi.lat > 0 THEN lhs < rhs ELSE rhs < lhs

\* the crossing (xj - xi) * (lat - yi) / (yj - yi) + xi is a rounded quotient:
\* where it equals point.lon exactly the comparison may round either way,
\* unless the product is 0 (vertical edge, or point level with vi) and the
\* crossing is xi itself
roundedPlain(point, vi, vj) ==
  /\ (vi.lat > point.lat) # (vj.lat > point.lat)
  /\ (point.lon - vi.lon) * (vj.lat - vi.lat) = (vj.lon - vi.lon) * (point.lat - vi.lat)
  /\ vj.lon # vi.lon
  /\ point.lat # vi.lat

\* the values the older pointInPolygon can return
pointInPolygonPlain(point, ring) ==
  LET n == Len(ring)
      prev(i) == IF i = 1 THEN n ELSE i - 1
      hits == {i \in 1..n : intersectPlain(point, ring[i], ring[prev(i)])}
  IN  IF \E i \in 1..n : roundedPlain(point, ring[i], ring[prev(i)])
      THEN BOOLEAN
      ELSE {Cardinality(hits) % 2 = 1}

\* pointInPolygon on coordinates in the sampler's units
pointInPolygon(point, ring) == pointInPolygonAt(BigOf(Scale), point, ring)

\* countries.ts: rings longer than this take the offset-ring branch of the sampler
SizeThreshold == 100

\* boundarySeed numbering the vertices from 1
boundarySeed_FromOne(ring) ==
  [i \in 1..Len(ring) |->
     [LatLon(ring[i].lon, ring[i].lat) EXCEPT !.boundary = TRUE, !.boundaryIndex = i]]

\* polygon.map((p, i) => ({ lat, lon, boundary: true, boundaryIndex: i }))
boundarySeed(ring) ==
  [i \in 1..Len(ring) |->
     [LatLon(ring[i].lon, ring[i].lat) EXCEPT !.boundary = TRUE, !.boundaryIndex = i - 1]]

\* offsetPolygon(polygon, 0.5).filter(p => pointInPolygon(p, polygon))
polygonOffsetBoundary(ring) ==
  LET kept(q) == pointInPolygon(q, ring)
  IN  SelectSeq(offsetPolygon(ring, SamplerOffset), kept)

\* minLat, minLon, maxLat, maxLon after the loop over seq; inf: still +-Infinity
boxOf(seq) ==
  IF seq = <<>>
  THEN [inf |-> TRUE, minLat |-> 0, minLon |-> 0, maxLat |-> 0, maxLon |-> 0]
  ELSE LET lats == {seq[i].lat : i \in 1..Len(seq)}
           lons == {seq[i].lon : i \in 1..Len(seq)}
       IN  [inf |-> FALSE, minLat |-> SetMin(lats), minLon |-> SetMin(lons),
            maxLat |-> SetMax(lats), maxLon |-> SetMax(lons)]

\* seedFrom with the offset ring put before the ring vertices
seedFrom_OffsetFirst(ring, boxed, extra) ==
  [pts |-> extra \o boundarySeed(ring), box |-> boxOf(boxed)]

\* pts and the box when the while loop is first reached
seedFrom(ring, boxed, extra) ==
  [pts |-> boundarySeed(ring) \o extra, box |-> boxOf(boxed)]

\* sampleSeed taking the box from the ring itself on either branch
sampleSeed_RingBox(ring) ==
  IF Len(ring) > SizeThreshold
  THEN LET off == polygonOffsetBoundary(ring) IN seedFrom(ring, ring, off)
  ELSE seedFrom(ring, ring, <<>>)

sampleSeed(ring) ==
  IF Len(ring) > SizeThreshold
  THEN LET off == polygonOffsetBoundary(ring) IN seedFrom(ring, off, off)
  ELSE seedFrom(ring, ring, <<>>)

\* Math.random() is one of 0/RandDen .. (RandDen-1)/RandDen
RandDen == 3

\* one candidate { lat, lon } of the while loop, for the two random draws
candidate(b, r1, r2) ==
  LatLon(b.minLon + (r2 * (b.maxLon - b.minLon)) \div RandDen,
         b.minLat + (r1 * (b.maxLat - b.minLat)) \div RandDen)

\* drawResult pushing the candidate without the pointInPolygon test
drawResult_Untested(ring, b, sofar, r1, r2) ==
  IF b.inf THEN sofar ELSE Append(sofar, candidate(b, r1, r2))

\* drawResult pushing an accepted candidate twice
drawResult_Twice(ring, b, sofar, r1, r2) ==
  IF b.inf THEN sofar
  ELSE IF pointInPolygon(candidate(b, r1, r2), ring)
       THEN Append(Append(sofar, candidate(b, r1, r2)), candidate(b, r1, r2))
       ELSE sofar

\* pts after one iteration of the while loop; with the box still infinite the
\* candidate is NaN, every comparison in pointInPolygon fails and nothing is pushed
drawResult(ring, b, sofar, r1, r2) ==
  IF b.inf THEN sofar
  ELSE IF pointInPolygon(candidate(b, r1, r2), ring)
       THEN Append(sofar, candidate(b, r1, r2))
       ELSE sofar

-----------------------------------------------------------------------------
(* Rings offered to the polygon functions: simple polygons with vertices on a
   small grid of whole degrees, of either winding, in three forms: as listed,
   closed by repeating the first vertex (GeoJSON), and dense (every edge cut
   into Scale equal steps, which takes the ring over SizeThreshold).  Only
   rings whose offset edges have integer lengths are offered. *)

MaxRing == 4

MaxExtra == 2

GridLon == {0, 8, 16}

GridLat == {0, 6}

Deg(lon, lat) == LatLon(lon * Scale, lat * Scale)

GridPts == {Deg(a, b) : a \in GridLon, b \in GridLat}

Turn(p, q, r) ==
  (q.lon - p.lon) * (r.lat - p.lat) - (q.lat - p.lat) * (r.lon - p.lon)

Sgn(n) == IF n > 0 THEN 1 ELSE IF n < 0 THEN -1 ELSE 0

\* r lies on the closed segment pq
OnSegment(p, q, r) ==
  /\ Turn(p, q, r) = 0
  /\ Min2(p.lon, q.lon) <= r.lon /\ r.lon <= Max2(p.lon, q.lon)
  /\ Min2(p.lat, q.lat) <= r.lat /\ r.lat <= Max2(p.lat, q.lat)

\* the closed segments ab and cd have a point in common
SegmentsMeet(a, b, c, d) ==
  \/ /\ Sgn(Turn(a, b, c)) # Sgn(Turn(a, b, d))
     /\ Sgn(Turn(c, d, a)) # Sgn(Turn(c, d, b))
  \/ OnSegment(a, b, c) \/ OnSegment(a, b, d)
  \/ OnSegment(c, d, a) \/ OnSegment(c, d, b)

\* ring is a simple polygon: distinct vertices, edges meet only at shared ends
IsSimple(ring) ==
  LET n == Len(ring)
      nxt(i) == (i % n) + 1
  IN  /\ \A i, j \in 1..n : i # j => ring[i] # ring[j]
      /\ \A i \in 1..n :
           /\ ~OnSegment(ring[i], ring[nxt(i)], ring[nxt(nxt(i))])
           /\ ~OnSegment(ring[nxt(i)], ring[nxt(nxt(i))], ring[i])
      /\ \A i, j \in 1..n :
           (i # j /\ nxt(i) # j /\ nxt(j) # i) =>
             ~SegmentsMeet(ring[i], ring[nxt(i)], ring[j], ring[nxt(j)])

BaseRings ==
  UNION {{r \in [1..n -> GridPts] : IsSimple(r)} : n \in 3..MaxRing}

\* every edge of the ring runs along a meridian or a parallel
AxisAligned(ring) ==
  \A i \in 1..Len(ring) :
    \/ ring[i].lon = ring[(i % Len(ring)) + 1].lon
    \/ ring[i].lat = ring[(i % Len(ring)) + 1].lat

\* the rings that are also offered densely sampled
DenseBase == {b \in BaseRings : Len(b) = 3 \/ AxisAligned(b)}

Closed(ring) == Append(ring, ring[1])

\* every edge of the ring, the closing one included, cut into Scale equal steps
Dense(ring) ==
  LET n == Len(ring)
      from(k) == ring[((k - 1) \div Scale) + 1]
      to(k)   == ring[((((k - 1) \div Scale) + 1) % n) + 1]
      step(k) == (k - 1) % Scale
  IN  [k \in 1..(n * Scale) |->
         LatLon(from(k).lon + (step(k) * (to(k).lon - from(k).lon)) \div Scale,
                from(k).lat + (step(k) * (to(k).lat - from(k).lat)) \div Scale)]

\* the offset vector of the edge (vx, vy) is a whole number of units
exactEdge(vx, vy) ==
  \E r \in Max2(Abs(vx), Abs(vy))..(Abs(vx) + Abs(vy)) :
    /\ r * r = vx * vx + vy * vy
    /\ (SamplerOffset * vx) % r = 0
    /\ (SamplerOffset * vy) % r = 0

ExactRing(ring) ==
  \A i \in 1..(Len(ring) - 1) :
    edgeSkipped(ring, i) \/
      exactEdge(ring[i + 1].lon - ring[i].lon, ring[i + 1].lat - ring[i].lat)

\* the square of the sampling example, with its target count
Square == <<Deg(0, 0), Deg(0, 10), Deg(10, 10), Deg(10, 0)>>

SquareTarget == 2 * Len(Square)

\* a kite whose third edge is 0.05 degree long, under the 0.1 degree threshold
ShortEdge ==
  <<Deg(8, 0 - 6), Deg(0, 0), Deg(8, 6), LatLon(8 * Scale + MinEdge \div 2, 6 * Scale)>>

Rings ==
  {r \in BaseRings \cup {Closed(b) : b \in BaseRings} \cup {Dense(b) : b \in DenseBase} :
     ExactRing(r)} \cup {Square, ShortEdge}

\* target counts: around the ring length and around the seeded length
Targets(ring, seeded) ==
  IF ring = Square THEN {SquareTarget}
  ELSE {m + k : m \in {Len(ring), seeded}, k \in (0 - 1)..MaxExtra}

-----------------------------------------------------------------------------
(* The polygon functions as actions.  Each is called on the ring of the run;
   the sampler's while loop is one action per iteration, one per pair of
   random draws. *)

PInit ==
  /\ polygon \in Rings
  /\ pc = "start"
  /\ winding = 0
  /\ offsetOut = <<>>
  /\ offsetDist = 0
  /\ num = 0
  /\ pts = <<>>
  /\ box = boxOf(<<>>)
  /\ QIdle
  /\ points = <<>>
  /\ triangles = <<>>
  /\ inserted = {}
  /\ finalized = FALSE

callPolygonWinding ==
  /\ pc = "start"
  /\ winding' = polygonWinding(lonLatFrame(polygon))
  /\ pc' = "windingDone"
  /\ UNCHANGED <<polygon, offsetOut, offsetDist, num, pts, box>>
  /\ UNCHANGED dvars
  /\ UNCHANGED rvars
  /\ UNCHANGED qvars

callOffsetPolygon(offsetDistance) ==
  /\ pc = "start"
  /\ offsetOut' = offsetPolygon(polygon, offsetDistance)
  /\ offsetDist' = offsetDistance
  /\ pc' = "offsetDone"
  /\ UNCHANGED <<polygon, winding, num, pts, box>>
  /\ UNCHANGED dvars
  /\ UNCHANGED rvars
  /\ UNCHANGED qvars

\* samplePointsInPolygon(polygon, target) up to the while loop
sampleBegin ==
  /\ pc = "start"
  /\ \E seed \in {sampleSeed(polygon)} :
       \E target \in Targets(polygon, Len(seed.pts)) :
         /\ num' = target
         /\ pts' = seed.pts
         /\ box' = seed.box
  /\ pc' = "sampling"
  /\ UNCHANGED <<polygon, winding, offsetOut, offsetDist>>
  /\ UNCHANGED dvars
  /\ UNCHANGED rvars
  /\ UNCHANGED qvars

\* one iteration of while (pts.length < num)
sampleDraw(r1, r2) ==
  /\ pc = "sampling"
  /\ Len(pts) < num
  /\ pts' = drawResult(polygon, box, pts, r1, r2)
  /\ UNCHANGED <<polygon, pc, winding, offsetOut, offsetDist, num, box>>
  /\ UNCHANGED dvars
  /\ UNCHANGED rvars
  /\ UNCHANGED qvars

\* sampleReturn giving up on the loop whatever pts holds
sampleReturn_GiveUp ==
  /\ pc = "sampling"
  /\ pc' = "returned"
  /\ UNCHANGED <<polygon, winding, offsetOut, offsetDist, num, pts, box>>
  /\ UNCHANGED dvars
  /\ UNCHANGED rvars
  /\ UNCHANGED qvars

\* the loop test fails: return pts
sampleReturn ==
  /\ pc = "sampling"
  /\ ~(Len(pts) < num)
  /\ pc' = "returned"
  /\ UNCHANGED <<polygon, winding, offsetOut, offsetDist, num, pts, box>>
  /\ UNCHANGED dvars
  /\ UNCHANGED rvars
  /\ UNCHANGED qvars

PNext ==
  \/ callPolygonWinding
  \/ \E d \in {DefaultOffset, SamplerOffset} : callOffsetPolygon(d)
  \/ sampleBegin
  \/ \E r1, r2 \in 0..(RandDen - 1) : sampleDraw(r1, r2)
  \/ sampleReturn

SpecPolygon == PInit /\ [][PNext]_vars

\* some pair of random draws gives a candidate the loop accepts
SomeAccepted ==
  \E r1, r2 \in 0..(RandDen - 1) : drawResult(polygon, box, pts, r1, r2) # pts

\* the loop is running and some candidate of the box would be accepted: this is
\* ENABLED <<sampleAccept>>_vars
SamplingAccepting == pc = "sampling" /\ Len(pts) < num /\ SomeAccepted

\* an iteration of the loop that pushes its candidate
sampleAccept == \E r1, r2 \in 0..(RandDen - 1) : sampleDraw(r1, r2)

\* the sampler keeps running (weak fairness of the return), and while some pair
\* of random draws would push a point, such a pair comes up eventually (fair
\* random sampling: weak fairness of sampleAccept, with its enabling condition
\* written out as SamplingAccepting)
SpecPolygonFair ==
  /\ PInit
  /\ [][PNext]_vars
  /\ WF_vars(sampleReturn)
  /\ ([]<>(~SamplingAccepting) \/ []<><<sampleAccept>>_vars)

-----------------------------------------------------------------------------
(* What the claims about the polygon functions speak of. *)

\* twice the signed area of the ring by the shoelace formula: positive for a
\* counter-clockwise ring, negative for a clockwise one
RECURSIVE ShoelaceSum(_, _, _)
ShoelaceSum(ring, lo, hi) ==
  IF lo > hi THEN 0
  ELSE IF lo = hi
  THEN LET p == ring[lo]
           q == ring[(lo % Len(ring)) + 1]
       IN  p.lon * q.lat - q.lon * p.lat
  ELSE LET mid == (lo + hi) \div 2
       IN  ShoelaceSum(ring, lo, mid) + ShoelaceSum(ring, mid + 1, hi)

Shoelace(ring) == ShoelaceSum(ring, 1, Len(ring))

\* the positions 1..n-1 whose outgoing edge offsetPolygon does not skip, in order
OffsetEdges(ring) ==
  LET kept(i) == ~edgeSkipped(ring, i)
  IN  SelectSeq([i \in 1..(Len(ring) - 1) |-> i], kept)

\* squared length of the edge leaving position i
EdgeLenSq(ring, i) ==
  (ring[i + 1].lon - ring[i].lon) * (ring[i + 1].lon - ring[i].lon)
    + (ring[i + 1].lat - ring[i].lat) * (ring[i + 1].lat - ring[i].lat)

\* the positions 1..n-1 whose outgoing edge is at least MinEdge long, in order
LongEdges(ring) ==
  LET long(i) == EdgeLenSq(ring, i) >= MinEdge * MinEdge
  IN  SelectSeq([i \in 1..(Len(ring) - 1) |-> i], long)

\* q is the vertex at position i moved by dist at a right angle to its outgoing edge
DisplacedFrom(ring, i, q, dist) ==
  LET dx == q.lon - ring[i].lon
      dy == q.lat - ring[i].lat
      vx == ring[i + 1].lon - ring[i].lon
      vy == ring[i + 1].lat - ring[i].lat
  IN  /\ dx * dx + dy * dy = dist * dist
      /\ vx * dx + vy * dy = 0

\* q lies on the interior side of the edge leaving position i: to its left in a
\* counter-clockwise ring, to its right in a clockwise one
InteriorSide(ring, i, q) ==
  Sgn(Turn(ring[i], ring[i + 1], q)) = Sgn(Shoelace(ring))

\* C5: polygonWinding returns +1 for a counter-clockwise ring (positive shoelace
\* sum) and -1 for a clockwise one, in the frame passed in
C5_WindingSign ==
  pc = "windingDone" =>
    /\ Shoelace(polygon) > 0 => winding = 1
    /\ Shoelace(polygon) < 0 => winding = -1

C7_OnePerEdge ==
  pc = "offsetDone" =>
    /\ Len(offsetOut) = Len(polygon) - 1
    /\ \A k \in 1..Len(offsetOut) :
         offsetOut[k].offset /\ DisplacedFrom(polygon, k, offsetOut[k], offsetDist)

\* C7 amended: offsetPolygon emits, in edge order, exactly one point for each
\* edge i -> i+1 with i in 0..n-2 that it does not skip, each tagged offset=true
\* and never tagged boundary, and never one for the last vertex
C7_OnePerKeptEdge ==
  pc = "offsetDone" =>
    /\ Len(offsetOut) = Len(OffsetEdges(polygon))
    /\ Len(offsetOut) <= Len(polygon) - 1
    /\ \A k \in 1..Len(offsetOut) :
         /\ offsetOut[k].offset
         /\ ~offsetOut[k].boundary
         /\ DisplacedFrom(polygon, OffsetEdges(polygon)[k], offsetOut[k], offsetDist)

C7_Witness ==
  /\ pc = "offsetDone"
  /\ polygon = ShortEdge
  /\ Len(offsetOut) = 2

\* C8: offsetPolygon skips an edge only when its length is below the 0.1
\* threshold; every edge at least that long produces an offset point
C8_SkipOnlyShort ==
  pc = "offsetDone" =>
    /\ Len(offsetOut) = Len(LongEdges(polygon))
    /\ \A k \in 1..Len(offsetOut) :
         DisplacedFrom(polygon, LongEdges(polygon)[k], offsetOut[k], offsetDist)

\* C9: the first n elements of samplePointsInPolygon's result are the polygon's
\* vertices in order, tagged boundary=true with boundaryIndex = i, whatever the
\* target count; no later element is tagged boundary
C9_BoundaryFirst ==
  pc = "returned" =>
    /\ Len(pts) >= Len(polygon)
    /\ \A i \in 1..Len(polygon) :
         /\ pts[i].lon = polygon[i].lon
         /\ pts[i].lat = polygon[i].lat
         /\ pts[i].boundary
         /\ pts[i].boundaryIndex = i - 1
    /\ \A i \in (Len(polygon) + 1)..Len(pts) : ~pts[i].boundary

C9_Witness ==
  /\ pc = "returned"
  /\ Len(polygon) > SizeThreshold
  /\ \E i \in (Len(polygon) + 1)..Len(pts) : pts[i].offset
  /\ ~pts[Len(pts)].offset

\* C10: every point of the result that is not tagged boundary satisfies
\* pointInPolygon(point, polygon); for the square (0,0),(0,10),(10,10),(10,0)
\* with target 8 the result is the 4 boundary points and 4 points inside
C10_OthersInside ==
  pc = "returned" =>
    /\ \A i \in 1..Len(pts) : ~pts[i].boundary => pointInPolygon(pts[i], polygon)
    /\ polygon = Square =>
         /\ Len(pts) = SquareTarget
         /\ Cardinality({i \in 1..Len(pts) : pts[i].boundary}) = Len(Square)

C10_Witness ==
  /\ pc = "returned"
  /\ polygon = Square
  /\ num = SquareTarget
  /\ Len(pts) = SquareTarget

\* the block a point of the sample set belongs to by its tags
Block(p) ==
  IF p.boundary /\ ~p.offset THEN 1
  ELSE IF p.offset /\ ~p.boundary THEN 2
  ELSE IF ~p.boundary /\ ~p.offset THEN 3
  ELSE 0

\* C11: the result of samplePointsInPolygon is three consecutive blocks: the ring
\* vertices tagged boundary, then the offset points tagged offset, then the
\* sampled points with neither tag; no point of a later block precedes one of
\* an earlier block
C11_ThreeBlocks ==
  pc = "returned" =>
    /\ \A i \in 1..Len(pts) : Block(pts[i]) # 0
    /\ \A i \in 1..(Len(pts) - 1) : Block(pts[i]) <= Block(pts[i + 1])
    /\ \A i \in 1..Len(pts) : Block(pts[i]) = 1 <=> i <= Len(polygon)

C11_Witness ==
  /\ pc = "returned"
  /\ {Block(pts[i]) : i \in 1..Len(pts)} = {1, 2, 3}

\* the points of pts that were seeded: ring vertices and kept offset points
Seeded == {i \in 1..Len(pts) : Block(pts[i]) # 3}

\* the size of a returned result, by the target and the number of seeded points
ReturnedSize ==
  pc = "returned" =>
    /\ num >= Cardinality(Seeded) => Len(pts) = num
    /\ num <= Cardinality(Seeded) => Len(pts) = Cardinality(Seeded)

\* the loop is running and its target is reached or some candidate is accepted
SamplingCanFinish == pc = "sampling" /\ (Len(pts) < num => SomeAccepted)

\* C12: when some candidate of the box is accepted, samplePointsInPolygon
\* eventually returns under fair random sampling; for a target at least the
\* number of seeded points the result has exactly target points, and for a
\* target not larger than it the result is the seeded points and nothing else
C12_ReturnsTarget ==
  /\ []ReturnedSize
  /\ SamplingCanFinish ~> (pc = "returned")

C12_Witness ==
  /\ pc = "returned"
  /\ Len(pts) = num
  /\ num > Len(polygon)
  /\ Block(pts[num]) = 3

\* the loop is running short of its target and no candidate of the box is accepted
SamplingStuck == pc = "sampling" /\ Len(pts) < num /\ ~SomeAccepted

\* C13: the sampling loop has no retry cap: it is left only with the target
\* reached, so when no candidate of the box satisfies pointInPolygon and the
\* target exceeds the seeded points, the sampler never returns
C13_NoRetryCap ==
  [][/\ (pc = "sampling" /\ pc' # "sampling") => Len(pts) >= num
     /\ SamplingStuck => (pc' = "sampling" /\ pts' = pts /\ num' = num
                           /\ box' = box /\ polygon' = polygon)]_vars

C13_Witness ==
  /\ SamplingStuck
  /\ Len(polygon) > SizeThreshold
  /\ box.inf

-----------------------------------------------------------------------------
(* The geometric predicates called on their own: pointInPolygon and the
   triangle classifiers.  The rings are the simple grid rings, the rings of
   fewer than 3 vertices, and a small triangle given in units of 1e-13 degree,
   where the epsilon of pointInPolygon (1e-12 degree) is 10 units. *)

\* 1e13 units per degree
FineUnits == BigMul(BigOf(10 ^ 7), BigOf(10 ^ 6))

FineRing == <<LatLon(1000, 0), LatLon(0, 100), LatLon(500, 500)>>

FineRings == {FineRing, SubSeq(FineRing, 1, 2)}

\* rings of 0, 1 and 2 vertices
ShortRings == UNION {[1..n -> GridPts] : n \in 0..2}

\* how far outside and inside the bounding box query points are taken, in units
QueryStep == 1

AxisChoices(lo, hi) ==
  {lo - QueryStep, lo, lo + QueryStep, (lo + hi) \div 2, hi - QueryStep, hi, hi + QueryStep}

RECURSIVE coordSum(_, _, _)
coordSum(ring, axis, i) ==
  IF i > Len(ring) THEN 0
  ELSE (IF axis = "lon" THEN ring[i].lon ELSE ring[i].lat) + coordSum(ring, axis, i + 1)

\* the mean of the vertices, when it falls on a whole unit
Centroids(ring) ==
  LET n == Len(ring)
      sumLon == coordSum(ring, "lon", 1)
      sumLat == coordSum(ring, "lat", 1)
  IN  IF n > 0 /\ sumLon % n = 0 /\ sumLat % n = 0
      THEN {LatLon(sumLon \div n, sumLat \div n)}
      ELSE {}

\* the points pointInPolygon is asked about: around and inside the bounding box
QueryPoints(ring) ==
  IF ring = <<>> THEN {LatLon(0, 0), LatLon(Scale, Scale)}
  ELSE LET lons == {ring[i].lon : i \in 1..Len(ring)}
           lats == {ring[i].lat : i \in 1..Len(ring)}
       IN  {LatLon(a, b) : a \in AxisChoices(SetMin(lons), SetMax(lons)),
                           b \in AxisChoices(SetMin(lats), SetMax(lats))}
             \cup Centroids(ring)

QInit ==
  /\ \/ polygon \in BaseRings \cup ShortRings /\ unitsPerDegree = BigOf(Scale)
     \/ polygon \in FineRings /\ unitsPerDegree = FineUnits
  /\ pc = "start"
  /\ args = <<>>
  /\ inside = <<>>
  /\ result = FALSE
  /\ RIdle
  /\ winding = 0
  /\ offsetOut = <<>>
  /\ offsetDist = 0
  /\ num = 0
  /\ pts = <<>>
  /\ box = boxOf(<<>>)
  /\ points = <<>>
  /\ triangles = <<>>
  /\ inserted = {}
  /\ finalized = FALSE

callPointInPolygon(point) ==
  /\ pc = "start"
  /\ args' = <<point>>
  /\ inside' = <<>>
  /\ result' = pointInPolygonAt(unitsPerDegree, point, polygon)
  /\ pc' = "pointInPolygonDone"
  /\ UNCHANGED <<polygon, unitsPerDegree, winding, offsetOut, offsetDist, num, pts, box>>
  /\ UNCHANGED dvars
  /\ UNCHANGED rvars

callPointInPolygonPlain(point) ==
  /\ pc = "start"
  /\ args' = <<point>>
  /\ inside' = <<>>
  /\ result' \in pointInPolygonPlain(point, polygon)
  /\ pc' = "pointInPolygonPlainDone"
  /\ UNCHANGED <<polygon, unitsPerDegree, winding, offsetOut, offsetDist, num, pts, box>>
  /\ UNCHANGED dvars
  /\ UNCHANGED rvars

\* areSequential taking every pair with a non-boundary vertex as sequential
areSequential_NonBoundary(a, b, insideA, insideB) ==
  LET isInsidePolygon == insideA /\ insideB
  IN  IF ~a.boundary \/ ~b.boundary THEN TRUE
      ELSE (Abs(a.boundaryIndex - b.boundaryIndex) # 1) \/ ~isInsidePolygon

\* areSequential(a, b, polygon), given what pointInPolygon returns for a and for b
areSequential(a, b, insideA, insideB) ==
  LET isInsidePolygon == insideA /\ insideB
  IN  IF ~a.boundary \/ ~b.boundary THEN ~isInsidePolygon
      ELSE (Abs(a.boundaryIndex - b.boundaryIndex) # 1) \/ ~isInsidePolygon

isBoundarySequenceTriangle(pA, pB, pC, insideA, insideB, insideC) ==
  LET ab == areSequential(pA, pB, insideA, insideB)
      bc == areSequential(pB, pC, insideB, insideC)
      ca == areSequential(pC, pA, insideC, insideA)
  IN  (ab /\ bc) \/ (ab /\ ca) \/ (bc /\ ca)

\* allEdgesAreBoundary asking for one boundary vertex only
allEdgesAreBoundary_Any(pA, pB, pC) == pA.boundary \/ pB.boundary \/ pC.boundary

allEdgesAreBoundary(pA, pB, pC) == pA.boundary /\ pB.boundary /\ pC.boundary

\* how many ring vertices are offered to the classifiers
MaxSeeds == 3

\* the sample-set points the classifiers are called with: the first ring
\* vertices as seeded by the sampler, the centroid and a point left of the
\* bounding box untagged, and the centroid tagged offset
ClassifyPoints(ring) ==
  LET seeds == boundarySeed(ring)
      out == IF ring = <<>> THEN LatLon(0, 0)
             ELSE LatLon(SetMin({ring[i].lon : i \in 1..Len(ring)}) - QueryStep, ring[1].lat)
  IN  {seeds[i] : i \in 1..Min2(MaxSeeds, Len(ring))}
        \cup Centroids(ring) \cup {out}
        \cup {[q EXCEPT !.offset = TRUE] : q \in Centroids(ring)}

\* pointInPolygon's answers for the points of a call
insideOf(called) ==
  {ins \in [1..Len(called) -> BOOLEAN] :
     /\ \A i \in 1..Len(called) : ins[i] \in pointInPolygonPlain(called[i], polygon)
     /\ \A i, j \in 1..Len(called) : called[i] = called[j] => ins[i] = ins[j]}

callAreSequential(a, b) ==
  /\ pc = "start"
  /\ args' = <<a, b>>
  /\ inside' \in insideOf(<<a, b>>)
  /\ result' = areSequential(a, b, inside'[1], inside'[2])
  /\ pc' = "areSequentialDone"
  /\ UNCHANGED <<polygon, unitsPerDegree, winding, offsetOut, offsetDist, num, pts, box>>
  /\ UNCHANGED dvars
  /\ UNCHANGED rvars

callIsBoundarySequenceTriangle(pA, pB, pC) ==
  /\ pc = "start"
  /\ args' = <<pA, pB, pC>>
  /\ inside' \in insideOf(<<pA, pB, pC>>)
  /\ result' = isBoundarySequenceTriangle(pA, pB, pC, inside'[1], inside'[2], inside'[3])
  /\ pc' = "isBoundarySequenceTriangleDone"
  /\ UNCHANGED <<polygon, unitsPerDegree, winding, offsetOut, offsetDist, num, pts, box>>
  /\ UNCHANGED dvars
  /\ UNCHANGED rvars

callAllEdgesAreBoundary(pA, pB, pC) ==
  /\ pc = "start"
  /\ args' = <<pA, pB, pC>>
  /\ inside' = <<>>
  /\ result' = allEdgesAreBoundary(pA, pB, pC)
  /\ pc' = "allEdgesAreBoundaryDone"
  /\ UNCHANGED <<polygon, unitsPerDegree, winding, offsetOut, offsetDist, num, pts, box>>
  /\ UNCHANGED dvars
  /\ UNCHANGED rvars

QNext ==
  \/ \E point \in QueryPoints(polygon) : callPointInPolygon(point)
  \/ \E point \in QueryPoints(polygon) : callPointInPolygonPlain(point)
  \/ \E a, b \in ClassifyPoints(polygon) : callAreSequential(a, b)
  \/ \E pA, pB, pC \in ClassifyPoints(polygon) : callIsBoundarySequenceTriangle(pA, pB, pC)
  \/ \E pA, pB, pC \in ClassifyPoints(polygon) : callAllEdgesAreBoundary(pA, pB, pC)

SpecPredicates == QInit /\ [][QNext]_vars

-----------------------------------------------------------------------------
(* Claims about the geometric predicates.                                  *)

PointInPolygonReturned == pc \in {"pointInPolygonDone", "pointInPolygonPlainDone"}

\* C14: pointInPolygon returns false for every query point when the polygon
\* has fewer than 3 vertices, the empty polygon included
C14_ShortRingFalse == (PointInPolygonReturned /\ Len(polygon) < 3) => result = FALSE

\* every corner of the ring turns the same way: convex, with non-zero area
IsConvex(ring) ==
  LET n == Len(ring)
      nxt(i) == (i % n) + 1
      turns == {Sgn(Turn(ring[i], ring[nxt(i)], ring[nxt(nxt(i))])) : i \in 1..n}
  IN  n >= 3 /\ (turns = {1} \/ turns = {-1})

\* the point lies outside the axis-aligned bounding box of the ring
OutsideBox(point, ring) ==
  LET lons == {ring[i].lon : i \in 1..Len(ring)}
      lats == {ring[i].lat : i \in 1..Len(ring)}
  IN  \/ point.lon < SetMin(lons) \/ point.lon > SetMax(lons)
      \/ point.lat < SetMin(lats) \/ point.lat > SetMax(lats)

\* C15: on a convex polygon of at least 3 vertices and non-zero area,
\* pointInPolygon returns true for the centroid and false for every point
\* outside the bounding box
C15_CentroidAndBox ==
  (pc = "pointInPolygonDone" /\ IsConvex(polygon)) =>
     /\ args[1] \in Centroids(polygon) => result = TRUE
     /\ OutsideBox(args[1], polygon) => result = FALSE

\* C16: areSequential returns true only for two boundary vertices whose
\* boundaryIndex values differ by exactly 1 and that are not both inside the
\* polygon; a pair with a non-boundary vertex, or with indices not 1 apart,
\* is not sequential
C16_SequentialOnlyAdjacent ==
  (pc = "areSequentialDone" /\ result = TRUE) =>
     /\ args[1].boundary /\ args[2].boundary
     /\ Abs(args[1].boundaryIndex - args[2].boundaryIndex) = 1
     /\ ~(inside[1] /\ inside[2])

\* C17: isBoundarySequenceTriangle(pA, pB, pC, polygon) returns true if and
\* only if areSequential classifies at least one of the pairs (A,B), (B,C),
\* (C,A) as sequential
C17_DroppedIffAnyPair ==
  pc = "isBoundarySequenceTriangleDone" =>
     (result = \/ areSequential(args[1], args[2], inside[1], inside[2])
               \/ areSequential(args[2], args[3], inside[2], inside[3])
               \/ areSequential(args[3], args[1], inside[3], inside[1]))

\* C18: allEdgesAreBoundary(pA, pB, pC) returns true if and only if all three
\* vertices carry boundary = true, so a triangle with an offset-tagged or an
\* untagged vertex is never dropped by the strict policy
C18_StrictAllBoundary ==
  pc = "allEdgesAreBoundaryDone" =>
     /\ result = (\A i \in 1..3 : args[i].boundary)
     /\ (\E i \in 1..3 : Block(args[i]) \in {2, 3}) => result = FALSE

\* a triangle of two boundary vertices and an offset-tagged point was kept
C18_Witness ==
  /\ pc = "allEdgesAreBoundaryDone"
  /\ result = FALSE
  /\ args[1].boundary /\ args[2].boundary /\ args[1] # args[2]
  /\ args[3].offset

-----------------------------------------------------------------------------
(* Claims about triangulate2D on a square and about the owned point array. *)

\* insertPoint has been called in index order, as triangulate2D calls it
IndexOrder == inserted = 0..(Cardinality(inserted) - 1)

SquareCenter == NumInputs = 5 /\ SubSeq(points, 1, 5) \in SquareCenterInputs

\* two corners next to each other along the square's boundary
AdjacentCorners == {{0, 1}, {1, 2}, {2, 3}, {3, 0}}

\* the triangles are the four made of the center and two adjacent corners
CenterFan ==
  /\ Len(triangles) = 4
  /\ {TriIdx(triangles[k]) : k \in 1..4} = {e \cup {4} : e \in AdjacentCorners}

\* C19: the four corners of a square and its center, inserted in index order
\* and finalized, give exactly 4 triangles, each of the center and two
\* adjacent corners, and no triangle of corners only
C19_SquareCenterFan ==
  []IndexOrder => []((finalized /\ SquareCenter) => CenterFan)

C19_Witness == finalized /\ SquareCenter /\ CenterFan

\* C20: after finalize() the points array of the instance holds exactly the
\* N input points (every one of which was inserted) and no super-triangle corner
C20_PointsAreInputs == finalized => Len(points) = Cardinality(inserted)

-----------------------------------------------------------------------------
(* Claims about single steps of the triangulator.                          *)

\* the three edges of a triangle as unordered vertex pairs
EdgeSets(t) == {{t.a, t.b}, {t.b, t.c}, {t.c, t.a}}

\* the edges that belong to exactly one of the triangles at the positions in bad
CavityEdges(tris, bad) ==
  {e \in UNION {EdgeSets(tris[k]) : k \in bad} :
     Cardinality({k \in bad : e \in EdgeSets(tris[k])}) = 1}

\* the step from tris to after inserts point i with the triangles at bad found bad
ReplacesCavity(tris, after, i, bad) ==
  LET notBad(t) == \A k \in bad : tris[k] # t
      kept == SelectSeq(tris, notBad)
      fresh == SubSeq(after, Len(kept) + 1, Len(after))
  IN  /\ Len(after) >= Len(kept)
      /\ SubSeq(after, 1, Len(kept)) = kept
      /\ Len(fresh) = Cardinality(CavityEdges(tris, bad))
      /\ {TriIdx(fresh[k]) : k \in 1..Len(fresh)} = {e \cup {i} : e \in CavityEdges(tris, bad)}
      /\ \A k \in 1..Len(fresh) :
           /\ fresh[k].c = i
           /\ fresh[k].circum = computeCircum(points, fresh[k].a, fresh[k].b, i)

\* C22: one insertPoint(i) step replaces T by (T minus bad) plus one triangle
\* (a, b, i) for every edge {a, b} that belongs to exactly one bad triangle,
\* bad being the triangles whose circumcircle contains point i; an edge shared
\* by two bad triangles gives no triangle and every triangle not bad is kept
C22_InsertStep ==
  [][inserted' # inserted =>
       \E i \in inserted' \ inserted :
         \E tie \in SUBSET TestedAs(points, triangles, i, "on") :
           ReplacesCavity(triangles, triangles', i,
                          TestedAs(points, triangles, i, "in") \cup tie)]_vars

\* three points are in and each insertion replaced its cavity by two triangles
\* more than it removed
C22_Witness ==
  /\ ~finalized
  /\ Cardinality(inserted) >= 3
  /\ Len(triangles) = 2 * Cardinality(inserted) + 1

\* the triangle of the three super-triangle corners
IsSuperTriangle(t) == TriIdx(t) = {NumInputs, NumInputs + 1, NumInputs + 2}

\* C23: after construction over N >= 1 points the point array is the N inputs
\* and then the three corners at N, N+1, N+2, the only triangle is
\* (N, N+1, N+2), every input passes the circle test against it, and the
\* first insertPoint(i) finds it bad and removes it
C23_SuperTriangleCovers ==
  [][(inserted = {} /\ ~finalized) =>
       /\ NumInputs >= 1
       /\ Len(triangles) = 1
       /\ <<triangles[1].a, triangles[1].b, triangles[1].c>>
            = <<NumInputs, NumInputs + 1, NumInputs + 2>>
       /\ \A i \in InputIdx : CircleTest(triangles[1].circum, Pt(points, i)) = "in"
       /\ inserted' # inserted =>
            \A k \in 1..Len(triangles') : ~IsSuperTriangle(triangles'[k])]_vars

\* the first of several distinct points went in and split the super-triangle in three
C23_Witness ==
  /\ ~finalized
  /\ NumInputs >= 2
  /\ Cardinality(inserted) = 1
  /\ ~triangles[1].circum.inf
  /\ Len(triangles) = 3
  /\ \A k \in 1..3 : triangles[k].c \in inserted

-----------------------------------------------------------------------------
(* The triangulator called past finalize(): the class has no state flag,   *)
(* so insertPoint and finalize run as before on the finalized triangles.   *)

\* late insertPoint calls are followed while the triangle array is this short
MaxLateTriangles == 3

insertPointLate(idx) ==
  /\ finalized
  /\ idx \in 0..(NumInputs - 1)
  /\ Len(triangles) <= MaxLateTriangles
  /\ \E tie \in SUBSET TestedAs(points, triangles, idx, "on") :
       triangles' = insertResult(points, triangles, idx,
                                 TestedAs(points, triangles, idx, "in") \cup tie)
  /\ UNCHANGED <<points, inserted, finalized>>
  /\ UNCHANGED pvars
  /\ UNCHANGED rvars
  /\ UNCHANGED qvars

finalizeLate ==
  /\ finalized
  /\ triangles' = finalizeResult(points, triangles)
  /\ UNCHANGED <<points, inserted, finalized>>
  /\ UNCHANGED pvars
  /\ UNCHANGED rvars
  /\ UNCHANGED qvars

LNext ==
  \/ DNext
  \/ \E idx \in 0..(MaxN + 1) : insertPointLate(idx)
  \/ finalizeLate

SpecLifecycle == DInit /\ [][LNext]_vars

\* C24: once finalize() has been called the triangulator stays finalized:
\* after any further insertPoint(i) and finalize() calls no triangle
\* references a super-triangle index, and a second finalize() leaves the
\* triangles unchanged
C24_StaysFinalized ==
  [][finalized =>
       /\ finalized'
       /\ \A k \in 1..Len(triangles') : TriIdx(triangles'[k]) \subseteq InputIdx
       /\ LET superSet == {NumInputs, NumInputs + 1, NumInputs + 2}
              untouched(t) == TriIdx(t) \cap superSet = {}
          IN  SelectSeq(triangles', untouched) = triangles']_vars

\* an insertPoint call after finalize() rebuilt part of the triangulation
C24_Witness ==
  /\ finalized
  /\ Len(triangles) >= 2
  /\ \E k \in 1..Len(triangles) : triangles[k].a = triangles[k].c \/ triangles[k].b = triangles[k].c

-----------------------------------------------------------------------------
(* Claims about insertion order.                                           *)

\* p, q, r, u lie on one circle (or one line)
Cocircular(p, q, r, u) ==
  LET a == [x |-> p.x - u.x, y |-> p.y - u.y]
      b == [x |-> q.x - u.x, y |-> q.y - u.y]
      c == [x |-> r.x - u.x, y |-> r.y - u.y]
      sq(v) == v.x * v.x + v.y * v.y
  IN  sq(a) * (b.x * c.y - b.y * c.x) - sq(b) * (a.x * c.y - a.y * c.x)
        + sq(c) * (a.x * b.y - a.y * b.x) = 0

\* no three inputs on a line, no four on a circle
GeneralPosition ==
  /\ \A i, j, k \in InputIdx :
       (i < j /\ j < k) => Cross(Pt(points, i), Pt(points, j), Pt(points, k)) # 0
  /\ \A i, j, k, l \in InputIdx :
       (i < j /\ j < k /\ k < l) =>
          ~Cocircular(Pt(points, i), Pt(points, j), Pt(points, k), Pt(points, l))

\* the triangles left by insertPoint(0), ..., insertPoint(k - 1) on the
\* constructed instance, an on-circle point counting as inside
RECURSIVE insertedInOrder(_)
insertedInOrder(k) ==
  IF k = 0 THEN <<Tri(points, NumInputs, NumInputs + 1, NumInputs + 2)>>
  ELSE LET before == insertedInOrder(k - 1)
       IN  insertResult(points, before, k - 1,
                        TestedAs(points, before, k - 1, "in")
                          \cup TestedAs(points, before, k - 1, "on"))

\* the index triples triangulate2D returns for these points
IndexOrderTriples ==
  LET tris == finalizeResult(points, insertedInOrder(NumInputs))
  IN  {TriIdx(tris[k]) : k \in 1..Len(tris)}

\* C25: whatever the insertion order, the finalized triangulation of the same
\* points has the Delaunay property, and when no four inputs are cocircular
\* and no three collinear it is the same set of index triples for every order
C25_OrderUpToDelaunay ==
  (finalized /\ inserted = InputIdx) =>
     /\ \A k \in 1..Len(triangles) : \A j \in InputIdx \ TriIdx(triangles[k]) :
          ~StrictlyInside(triangles[k].circum, Pt(points, j))
     /\ GeneralPosition =>
          {TriIdx(triangles[k]) : k \in 1..Len(triangles)} = IndexOrderTriples

-----------------------------------------------------------------------------
(* Claims about coincident points.                                         *)

\* a triangle of input points, two of them at the same coordinates, cached
\* with the placeholder circumcircle
CoincidentTriangle(t) ==
  /\ TriIdx(t) \subseteq InputIdx
  /\ t.circum.inf
  /\ \E u, v \in TriIdx(t) : u # v /\ Pt(points, u) = Pt(points, v)

\* C27: inserting a point that coincides with an inserted one raises nothing
\* and creates zero-area triangles with the placeholder circumcircle; such a
\* triangle, unless it has a super-triangle vertex, stays in the triangle set
\* through every later insertPoint call and through finalize()
C27_CoincidentSurvive ==
  [][\A k \in 1..Len(triangles) :
       CoincidentTriangle(triangles[k]) =>
         \E l \in 1..Len(triangles') : triangles'[l] = triangles[k]]_vars

-----------------------------------------------------------------------------
(* Claims about the classifier as implemented.                             *)

\* the orders in which three vertices can be passed
Orders3 == {o \in [1..3 -> 1..3] : {o[1], o[2], o[3]} = 1..3}

\* C28: isBoundarySequenceTriangle never drops a triangle whose three vertices
\* are non-boundary points that pointInPolygon finds inside, and its verdict
\* is the same for every order in which the three vertices are passed
C28_InteriorKept ==
  pc = "isBoundarySequenceTriangleDone" =>
     /\ (\A i \in 1..3 : ~args[i].boundary /\ inside[i]) => result = FALSE
     /\ \A o \in Orders3 :
          isBoundarySequenceTriangle(args[o[1]], args[o[2]], args[o[3]],
                                     inside[o[1]], inside[o[2]], inside[o[3]]) = result

\* a triangle of interior points, one of them from the offset ring, was kept
C28_Witness ==
  /\ pc = "isBoundarySequenceTriangleDone"
  /\ \A i \in 1..3 : ~args[i].boundary /\ inside[i]
  /\ args[1].offset /\ ~args[2].offset
  /\ Len(polygon) >= 3
  /\ result = FALSE

-----------------------------------------------------------------------------
(* Claims about the sampling box of long rings.                            *)

\* the offset-ring points that passed the pointInPolygon filter, as held in pts
KeptOffsets == {pts[i] : i \in {j \in 1..Len(pts) : pts[j].offset}}

\* the box spans exactly the points of S, and is still infinite when S is empty
BoxSpans(S) ==
  IF S = {} THEN box.inf
  ELSE /\ ~box.inf
       /\ box.minLat = SetMin({q.lat : q \in S}) /\ box.maxLat = SetMax({q.lat : q \in S})
       /\ box.minLon = SetMin({q.lon : q \in S}) /\ box.maxLon = SetMax({q.lon : q \in S})

\* C29: for a ring of more than 100 vertices the sampling box is taken from
\* the offset points that passed the pointInPolygon filter only; when none
\* passed, the box keeps its infinite bounds, no candidate is accepted, and
\* with a target above the vertex count the loop is never left
C29_BoxFromKeptOffsets ==
  [][(pc = "sampling" /\ Len(polygon) > SizeThreshold) =>
       /\ BoxSpans(KeptOffsets)
       /\ (box.inf /\ num > Len(polygon)) =>
            /\ Len(pts) = Len(polygon)
            /\ pc' = "sampling" /\ pts' = pts /\ box' = box /\ num' = num]_vars

\* a long ring whose offset ring gave no point, sampling towards a target above
\* its vertex count
C29_Witness ==
  /\ pc = "sampling"
  /\ Len(polygon) > SizeThreshold
  /\ KeptOffsets = {}
  /\ box.inf
  /\ num > Len(polygon)
  /\ Len(pts) = Len(polygon)

-----------------------------------------------------------------------------
(* samplePointsInPolygon called on a ring as it comes, as the older
   generateCountryData of main.ts calls it for every ring of a country:
   rings of fewer than three vertices, and the square for comparison. *)

SInit ==
  /\ polygon \in ShortRings \cup {Square}
  /\ pc = "start"
  /\ winding = 0
  /\ offsetOut = <<>>
  /\ offsetDist = 0
  /\ num = 0
  /\ pts = <<>>
  /\ box = boxOf(<<>>)
  /\ QIdle
  /\ points = <<>>
  /\ triangles = <<>>
  /\ inserted = {}
  /\ finalized = FALSE

SNext ==
  \/ sampleBegin
  \/ \E r1, r2 \in 0..(RandDen - 1) : sampleDraw(r1, r2)
  \/ sampleReturn

SpecSampler == SInit /\ [][SNext]_vars

\* C21: a ring of fewer than 3 points is rejected before sampling starts: the
\* sampler called with it never stands in its rejection-sampling loop with the
\* loop condition pts.length < num true, and no triangulator is constructed
\* or fed for it
C21_RejectsMalformed ==
  Len(polygon) < 3 =>
     /\ ~(pc = "sampling" /\ Len(pts) < num)
     /\ points = <<>> /\ inserted = {}

-----------------------------------------------------------------------------
(* countries.ts: the country data.  A country is the record loadAllCountries
   builds for a feature, without its name and colour. *)

\* helper.ts latLonToSphere: the point of the unit sphere at these angles,
\* written by its angles (its cosines and sines are not computed)
latLonToSphere(lat, lon) == [sphereLat |-> lat, sphereLon |-> lon]

\* the record of one feature: its rings, and six empty arrays
loadedCountry(rings) ==
  [polygons |-> rings, points |-> <<>>, spherePoints |-> <<>>, triangles |-> <<>>,
   pointsMesh |-> <<>>, edges |-> <<>>, mesh |-> <<>>, labels |-> 0]

\* countries = geojson.features.map(...); labels counts the labels drawLabel
\* has attached to mesh[0]
loadedCountries(features) == [j \in 1..Len(features) |-> loadedCountry(features[j])]

\* rings of fewer than this many vertices get empty entries
MinVertices == 5

\* Math.max(polygonArea2D(polygon), MinPoints), then Math.min(MaxPoints, ...)
MinPoints == 100

MaxPoints == 1000

\* the sampler is asked for no more than this many points
SampleCap == 6

\* polygonArea2D in square degrees, rounded up: the loop test pts.length < num
\* reads a fractional num as the next integer
polygonArea2D(ring) ==
  LET twice == Abs(Shoelace(ring))
      unit  == 2 * Scale * Scale
  IN  (twice + unit - 1) \div unit

\* the target count (a country not in LARGE_COUNTRIES), held to SampleCap
numOfIntermediatePoints(ring) ==
  Min2(SampleCap, Min2(MaxPoints, Max2(polygonArea2D(ring), MinPoints)))

\* points.map(p => ({ x: p.lon, y: p.lat }))
flatOf(ps) == [i \in 1..Len(ps) |-> [x |-> ps[i].lon, y |-> ps[i].lat]]

\* country.points = []; country.spherePoints = []; country.triangles = []
resetCountry(c) == [c EXCEPT !.points = <<>>, !.spherePoints = <<>>, !.triangles = <<>>]

\* the loop over the countries reaching country j: its three arrays are
\* emptied and its first ring is next; a country without rings is passed
RECURSIVE enterCountry(_, _)
enterCountry(cs, j) ==
  IF j > Len(cs) THEN [countries |-> cs, cursor |-> <<>>]
  ELSE LET reset == [cs EXCEPT ![j] = resetCountry(cs[j])]
       IN  IF cs[j].polygons = <<>> THEN enterCountry(reset, j + 1)
           ELSE [countries |-> reset, cursor |-> <<j, 1>>]

\* the loops after ring k of country j
nextRing(cs, j, k) ==
  IF k < Len(cs[j].polygons) THEN [countries |-> cs, cursor |-> <<j, k + 1>>]
  ELSE enterCountry(cs, j + 1)

\* the three pushes that end an iteration of the loop over the rings
pushRing(cs, j, ps, tris) ==
  [cs EXCEPT ![j].points = Append(@, ps),
             ![j].spherePoints =
                Append(@, [i \in 1..Len(ps) |-> latLonToSphere(ps[i].lat, ps[i].lon)]),
             ![j].triangles = Append(@, tris)]

\* the ring the loops are at
cursorRing == countries[cursor[1]].polygons[cursor[2]]

\* the call of regenerate() whose continuation is running or next to run
running == Head(jobs)

\* generateCountryData() has returned when the loops are over
atAfter(next) == IF next.cursor = <<>> THEN "generated" ELSE "generating"

\* regenerate() resumes after await loadAllCountries() and calls
\* generateCountryData(), which enters its loops
generateCountryData ==
  /\ jobs # <<>>
  /\ calls[running].at = "loaded"
  /\ LET next == enterCountry(countries, 1)
     IN  /\ countries' = next.countries
         /\ cursor' = next.cursor
         /\ calls' = [calls EXCEPT ![running].at = atAfter(next)]
  /\ UNCHANGED <<geojson, jobs, ptsGroup, triGroup, surfaceGroup, allocated>>
  /\ UNCHANGED <<dvars, pvars, unitsPerDegree, args, inside, result>>

\* if (polygon.length < 5) { three empty entries; continue; }
ringSkip ==
  /\ cursor # <<>>
  /\ pc = "idle"
  /\ Len(cursorRing) < MinVertices
  /\ LET next == nextRing(pushRing(countries, cursor[1], <<>>, <<>>), cursor[1], cursor[2])
     IN  /\ countries' = next.countries
         /\ cursor' = next.cursor
         /\ calls' = [calls EXCEPT ![running].at = atAfter(next)]
  /\ UNCHANGED <<geojson, jobs, ptsGroup, triGroup, surfaceGroup, allocated>>
  /\ UNCHANGED <<dvars, pvars, unitsPerDegree, args, inside, result>>

\* samplePointsInPolygon(polygon, numOfIntermediatePoints) up to its while loop
ringSample ==
  /\ cursor # <<>>
  /\ pc = "idle"
  /\ Len(cursorRing) >= MinVertices
  /\ polygon' = cursorRing
  /\ num' = numOfIntermediatePoints(cursorRing)
  /\ pts' = sampleSeed(cursorRing).pts
  /\ box' = sampleSeed(cursorRing).box
  /\ pc' = "sampling"
  /\ UNCHANGED <<winding, offsetOut, offsetDist>>
  /\ UNCHANGED <<dvars, rvars, unitsPerDegree, args, inside, result>>

\* triangulate2D(flat): new Delaunay2D(flatPoints)
ringTriangulate ==
  /\ cursor # <<>>
  /\ pc = "returned"
  /\ LET st == initSuperTriangle(flatOf(pts))
     IN  /\ points' = st.points
         /\ triangles' = st.triangles
  /\ inserted' = {}
  /\ finalized' = FALSE
  /\ pc' = "triangulating"
  /\ UNCHANGED <<polygon, winding, offsetOut, offsetDist, num, pts, box>>
  /\ UNCHANGED <<rvars, unitsPerDegree, args, inside, result>>

\* for (let i = 0; i < flatPoints.length; i++) delaunay.insertPoint(i)
ringInsert ==
  /\ pc = "triangulating"
  /\ \E idx \in {Cardinality(inserted)} : insertPoint(idx)

\* delaunay.finalize()
ringFinalize ==
  /\ pc = "triangulating"
  /\ finalize

\* triplesOf counting the points from 1
triplesOf_FromOne(tris) ==
  [k \in 1..Len(tris) |-> <<tris[k].a + 1, tris[k].b + 1, tris[k].c + 1>>]

\* the index triples triangulate2D returns
triplesOf(tris) == [k \in 1..Len(tris) |-> <<tris[k].a, tris[k].b, tris[k].c>>]

\* the pushes of points, spherePoints and triangles for the ring; the locals
\* of the iteration are gone
ringPush ==
  /\ cursor # <<>>
  /\ pc = "triangulating"
  /\ finalized
  /\ LET next == nextRing(pushRing(countries, cursor[1], pts, triplesOf(triangles)),
                          cursor[1], cursor[2])
     IN  /\ countries' = next.countries
         /\ cursor' = next.cursor
         /\ calls' = [calls EXCEPT ![running].at = atAfter(next)]
  /\ points' = <<>>
  /\ triangles' = <<>>
  /\ inserted' = {}
  /\ finalized' = FALSE
  /\ polygon' = <<>>
  /\ pc' = "idle"
  /\ num' = 0
  /\ pts' = <<>>
  /\ box' = boxOf(<<>>)
  /\ UNCHANGED <<winding, offsetOut, offsetDist>>
  /\ UNCHANGED <<geojson, jobs, ptsGroup, triGroup, surfaceGroup, allocated>>
  /\ UNCHANGED <<unitsPerDegree, args, inside, result>>

-----------------------------------------------------------------------------
(* main.ts: drawCountry and the rest of regenerate().  A scene object is
   written by the order of its construction (id), its class, and the points
   and triangles its geometry was filled from. *)

\* group.add(object): an object is a child once, a new child comes last
groupAdd(group, object) ==
  LET other(o) == o # object
  IN  Append(SelectSeq(group, other), object)

\* pointInPolygon's answers for the points of ring k of the country, one per point
insideAnswers(c, k) ==
  LET ps == c.points[k]
  IN  {ins \in [1..Len(ps) -> BOOLEAN] :
         /\ \A i \in 1..Len(ps) : ins[i] \in pointInPolygonPlain(ps[i], c.polygons[k])
         /\ \A i, j \in 1..Len(ps) : ps[i] = ps[j] => ins[i] = ins[j]}

\* the triangles of ring k that are drawn: if (polygonEdgeTri) continue
drawnTriangles(c, k, ins) ==
  LET ps == c.points[k]
      drawn(t) == ~isBoundarySequenceTriangle(ps[t[1] + 1], ps[t[2] + 1], ps[t[3] + 1],
                                              ins[t[1] + 1], ins[t[2] + 1], ins[t[3] + 1])
  IN  SelectSeq(c.triangles[k], drawn)

\* array?.[index] && group.add(array[index]), index = k - 1
addAt(group, array, k) == IF k <= Len(array) THEN groupAdd(group, array[k]) ELSE group

\* drawCountry(countries[j], k - 1) on the drawing state st: each of the three
\* arrays gets a new object pushed, and the entry at position index is added
\* to its group; drawLabel adds one more label to mesh[0]
drawCountry(st, j, k) ==
  LET c == st.countries[j]
  IN  {LET tris == drawnTriangles(c, k, ins)
           pointsMesh == Append(c.pointsMesh,
                                [id |-> st.allocated + 1, class |-> "Points",
                                 points |-> c.points[k], triangles |-> <<>>])
           edges == Append(c.edges,
                           [id |-> st.allocated + 2, class |-> "LineSegments",
                            points |-> c.points[k], triangles |-> tris])
           mesh == Append(c.mesh,
                          [id |-> st.allocated + 3, class |-> "Mesh",
                           points |-> c.points[k], triangles |-> tris])
       IN  [countries |-> [st.countries EXCEPT ![j] =
                             [c EXCEPT !.pointsMesh = pointsMesh, !.edges = edges,
                                       !.mesh = mesh, !.labels = @ + 1]],
            ptsGroup |-> addAt(st.ptsGroup, pointsMesh, k),
            triGroup |-> addAt(st.triGroup, edges, k),
            surfaceGroup |-> addAt(st.surfaceGroup, mesh, k),
            allocated |-> st.allocated + 3] : ins \in insideAnswers(c, k)}

\* the pairs (country, ring) in the order of the two for loops of regenerate()
RECURSIVE ringsFrom(_, _, _)
ringsFrom(cs, j, k) ==
  IF j > Len(cs) THEN <<>>
  ELSE IF k > Len(cs[j].polygons) THEN ringsFrom(cs, j + 1, 1)
  ELSE <<<<j, k>>>> \o ringsFrom(cs, j, k + 1)

\* the drawing states after drawCountry for each pair of todo in turn
RECURSIVE drawEach(_, _)
drawEach(sts, todo) ==
  IF todo = <<>> THEN sts
  ELSE drawEach(UNION {drawCountry(st, Head(todo)[1], Head(todo)[2]) : st \in sts},
                Tail(todo))

\* regenerate() after generateCountryData(): the three groups are cleared,
\* every ring of every country is drawn, and the call is over
drawCountries ==
  /\ jobs # <<>>
  /\ calls[running].at = "generated"
  /\ \E st \in drawEach({[countries |-> countries, ptsGroup |-> <<>>, triGroup |-> <<>>,
                          surfaceGroup |-> <<>>, allocated |-> allocated]},
                        ringsFrom(countries, 1, 1)) :
       /\ countries' = st.countries
       /\ ptsGroup' = st.ptsGroup
       /\ triGroup' = st.triGroup
       /\ surfaceGroup' = st.surfaceGroup
       /\ allocated' = st.allocated
  /\ calls' = [calls EXCEPT ![running].at = "done"]
  /\ jobs' = Tail(jobs)
  /\ UNCHANGED <<geojson, cursor>>
  /\ UNCHANGED <<dvars, pvars, unitsPerDegree, args, inside, result>>

\* what remains of a call of regenerate() once await loadAllCountries() is over
CNext ==
  \/ generateCountryData
  \/ ringSkip
  \/ ringSample
  \/ \E r1, r2 \in 0..(RandDen - 1) : sampleDraw(r1, r2)
  \/ sampleReturn
  \/ ringTriangulate
  \/ ringInsert
  \/ ringFinalize
  \/ ringPush
  \/ drawCountries

-----------------------------------------------------------------------------
(* Inputs of the country functions: features of one or two rings. *)

\* rings below the vertex-count threshold: empty, a segment, a triangle open
\* and closed, an open rectangle
SkippedRings ==
  { <<>>,
    <<Deg(0, 0), Deg(8, 0)>>,
    <<Deg(0, 0), Deg(8, 0), Deg(8, 6)>>,
    Closed(<<Deg(0, 0), Deg(8, 0), Deg(8, 6)>>),
    <<Deg(0, 0), Deg(8, 0), Deg(8, 6), Deg(0, 6)>> }

\* an open rectangle, skipped, and two closed rings of five vertices: the
\* rectangle and a trapezoid
OpenRectangle == <<Deg(0, 0), Deg(8, 0), Deg(8, 6), Deg(0, 6)>>

Rectangle == Closed(OpenRectangle)

Trapezoid == Closed(<<Deg(0, 0), Deg(16, 0), Deg(8, 6), Deg(0, 6)>>)

\* a feature has at most this many rings
MaxRings == 2

\* the ring lists of a feature: skipped rings only, or one sampled ring alone,
\* after or before a skipped one
RingLists ==
  UNION {[1..n -> SkippedRings] : n \in 1..MaxRings}
    \cup {<<Rectangle>>, <<OpenRectangle, Rectangle>>, <<Trapezoid, OpenRectangle>>}

\* the files: one feature, or a feature without rings followed by one of one ring
CountryInputs ==
  {<<rs>> : rs \in RingLists} \cup {<<<<>>, rs>> : rs \in {q \in RingLists : Len(q) = 1}}

\* the state in which the first regenerate() resumes after
\* await loadAllCountries(): the countries loaded, nothing generated or drawn
CInit ==
  /\ geojson \in CountryInputs
  /\ countries = loadedCountries(geojson)
  /\ cursor = <<>>
  /\ calls = <<[at |-> "loaded", overlapped |-> FALSE]>>
  /\ jobs = <<1>>
  /\ ptsGroup = <<>>
  /\ triGroup = <<>>
  /\ surfaceGroup = <<>>
  /\ allocated = 0
  /\ points = <<>>
  /\ triangles = <<>>
  /\ inserted = {}
  /\ finalized = FALSE
  /\ polygon = <<>>
  /\ pc = "idle"
  /\ winding = 0
  /\ offsetOut = <<>>
  /\ offsetDist = 0
  /\ num = 0
  /\ pts = <<>>
  /\ box = boxOf(<<>>)
  /\ unitsPerDegree = BigOf(Scale)
  /\ args = <<>>
  /\ inside = <<>>
  /\ result = FALSE

SpecCountry == CInit /\ [][CNext]_vars

-----------------------------------------------------------------------------
(* Claims about generateCountryData. *)

\* generateCountryData() has returned in some call of regenerate()
Generated == \E r \in 1..Len(calls) : calls[r].at \in {"generated", "done"}

\* the three data arrays of the country have one entry per ring
OnePerRing(c) ==
  /\ Len(c.points) = Len(c.polygons)
  /\ Len(c.spherePoints) = Len(c.polygons)
  /\ Len(c.triangles) = Len(c.polygons)

\* every index of every triangle of ring k is a position of points[k]
ValidIndices(c, k) ==
  \A n \in 1..Len(c.triangles[k]) : \A m \in 1..3 :
     0 <= c.triangles[k][n][m] /\ c.triangles[k][n][m] < Len(c.points[k])

\* C26: after generateCountryData() the arrays points, spherePoints and
\* triangles of every country have one entry per ring; a ring of fewer than 5
\* vertices has empty entries and neither the sampler nor the triangulator
\* runs for it; for every other ring each triangle index is a valid index
\* into the points of that ring
C26_AlignedArrays ==
  /\ Generated =>
       \A j \in 1..Len(countries) :
          /\ OnePerRing(countries[j])
          /\ \A k \in 1..Len(countries[j].polygons) :
               IF Len(countries[j].polygons[k]) < 5
               THEN /\ countries[j].points[k] = <<>>
                    /\ countries[j].spherePoints[k] = <<>>
                    /\ countries[j].triangles[k] = <<>>
               ELSE ValidIndices(countries[j], k)
  /\ (cursor # <<>> /\ Len(cursorRing) < 5) => (pc = "idle" /\ points = <<>>)

\* generated: a country with a skipped ring and a triangulated one
C26_Witness ==
  /\ Generated
  /\ \E j \in 1..Len(countries) : \E k, m \in 1..Len(countries[j].polygons) :
       /\ Len(countries[j].polygons[k]) < 5
       /\ Len(countries[j].triangles[m]) >= 2
       /\ Len(countries[j].points[m]) > Len(countries[j].polygons[m])

-----------------------------------------------------------------------------
(* main.ts: calls of regenerate() that overlap.  A call stands at the await
   it is suspended in: "fetch" and "json" inside loadAllCountries, "loaded"
   at await loadAllCountries() once that promise is resolved.  The host
   settles the promises of fetch and res.json() in any order and at any time
   between jobs; the continuation of an await is a job, and jobs run one
   at a time in the order they were queued. *)

\* how many times regenerate() is called: on load, then by the slider
MaxCalls == 2

\* a ring of five vertices, no three on a line and no four on a circle
Pentagon == <<Deg(0, 0), Deg(8, 0), Deg(10, 6), Deg(4, 10), Deg(0 - 2, 6)>>

\* the files: one country of one or two rings
RegenInputs ==
  { <<<<OpenRectangle>>>>, <<<<Pentagon>>>>, <<<<OpenRectangle, Pentagon>>>> }

RInit ==
  /\ geojson \in RegenInputs
  /\ countries = <<>>
  /\ cursor = <<>>
  /\ calls = <<>>
  /\ jobs = <<>>
  /\ ptsGroup = <<>>
  /\ triGroup = <<>>
  /\ surfaceGroup = <<>>
  /\ allocated = 0
  /\ points = <<>>
  /\ triangles = <<>>
  /\ inserted = {}
  /\ finalized = FALSE
  /\ polygon = <<>>
  /\ pc = "idle"
  /\ winding = 0
  /\ offsetOut = <<>>
  /\ offsetDist = 0
  /\ num = 0
  /\ pts = <<>>
  /\ box = boxOf(<<>>)
  /\ unitsPerDegree = BigOf(Scale)
  /\ args = <<>>
  /\ inside = <<>>
  /\ result = FALSE

\* the call is suspended inside loadAllCountries
InLoad(r) == calls[r].at \in {"fetch", "json"}

\* no continuation is in the middle of its run
BetweenJobs == \A r \in 1..Len(calls) : calls[r].at \notin {"generating", "generated"}

\* regenerate() is called, from the module body or by the slider's input
\* listener: it runs up to await fetch(...) inside loadAllCountries
regenerate ==
  /\ Len(calls) < MaxCalls
  /\ jobs = <<>>
  /\ calls' = Append(calls, [at |-> "fetch",
                             overlapped |-> \E r \in 1..Len(calls) : InLoad(r)])
  /\ UNCHANGED <<geojson, countries, cursor, jobs, ptsGroup, triGroup, surfaceGroup,
                 allocated>>
  /\ UNCHANGED <<dvars, pvars, unitsPerDegree, args, inside, result>>

\* the promise call r awaits inside loadAllCountries is settled: its
\* continuation is queued
settle(r) ==
  /\ r \in 1..Len(calls)
  /\ InLoad(r)
  /\ BetweenJobs
  /\ \A n \in 1..Len(jobs) : jobs[n] # r
  /\ jobs' = Append(jobs, r)
  /\ UNCHANGED <<geojson, countries, cursor, calls, ptsGroup, triGroup, surfaceGroup,
                 allocated>>
  /\ UNCHANGED <<dvars, pvars, unitsPerDegree, args, inside, result>>

\* const res = await fetch(...) resumes and calls res.json()
fetchContinue ==
  /\ jobs # <<>>
  /\ calls[running].at = "fetch"
  /\ calls' = [calls EXCEPT ![running].at = "json"]
  /\ jobs' = Tail(jobs)
  /\ UNCHANGED <<geojson, countries, cursor, ptsGroup, triGroup, surfaceGroup, allocated>>
  /\ UNCHANGED <<dvars, pvars, unitsPerDegree, args, inside, result>>

\* const geojson = await res.json() resumes: countries is assigned the new
\* array and loadAllCountries returns, which queues the continuation of
\* await loadAllCountries()
jsonContinue ==
  /\ jobs # <<>>
  /\ calls[running].at = "json"
  /\ countries' = loadedCountries(geojson)
  /\ calls' = [calls EXCEPT ![running].at = "loaded"]
  /\ jobs' = Append(Tail(jobs), running)
  /\ UNCHANGED <<geojson, cursor, ptsGroup, triGroup, surfaceGroup, allocated>>
  /\ UNCHANGED <<dvars, pvars, unitsPerDegree, args, inside, result>>

RNext ==
  \/ regenerate
  \/ \E r \in 1..MaxCalls : settle(r)
  \/ fetchContinue
  \/ jsonContinue
  \/ CNext

SpecRegenerate == RInit /\ [][RNext]_vars

-----------------------------------------------------------------------------
(* Claims about overlapping calls of regenerate(). *)

\* two calls, the second started while the first was suspended in
\* loadAllCountries, and both are over
BothDone ==
  /\ Len(calls) = 2
  /\ calls[2].overlapped
  /\ \A r \in 1..2 : calls[r].at = "done"

\* object is what drawCountry builds of the given class from ring k of c as it is stored
BuiltFrom(object, class, c, k) ==
  /\ object.class = class
  /\ object.points = c.points[k]
  /\ object.triangles \in
       (IF class = "Points" THEN {<<>>}
        ELSE {drawnTriangles(c, k, ins) : ins \in insideAnswers(c, k)})

\* the children of the group are the entries of the arrays, and nothing else
Holds(group, arrays) ==
  {group[n] : n \in 1..Len(group)} = UNION {{a[k] : k \in 1..Len(a)} : a \in arrays}

\* every country has one pointsMesh, edges and mesh entry per ring, entry k
\* is built from the points and triangles stored for ring k, and the scene
\* groups hold these entries and no others
MeshesCurrent ==
  /\ \A j \in 1..Len(countries) :
       LET c == countries[j]
       IN  /\ Len(c.pointsMesh) = Len(c.polygons)
           /\ Len(c.edges) = Len(c.polygons)
           /\ Len(c.mesh) = Len(c.polygons)
           /\ \A k \in 1..Len(c.polygons) :
                /\ BuiltFrom(c.pointsMesh[k], "Points", c, k)
                /\ BuiltFrom(c.edges[k], "LineSegments", c, k)
                /\ BuiltFrom(c.mesh[k], "Mesh", c, k)
  /\ Holds(ptsGroup, {countries[j].pointsMesh : j \in 1..Len(countries)})
  /\ Holds(triGroup, {countries[j].edges : j \in 1..Len(countries)})
  /\ Holds(surfaceGroup, {countries[j].mesh : j \in 1..Len(countries)})

====
